---- MODULE Spec2Model ----
(***************************************************************************)
(* elfindo: parallel find.  Model of Main.cpp: the SharedStack of pending  *)
(* directories, the scan threads (threadStart / scan), the per-entry       *)
(* filter and action pipeline (processDiscoveredEntry) and main().         *)
(*                                                                         *)
(* Strings are sequences of one-character strings.  Every critical section *)
(* of SharedStack (push, popWait up to its wait or return) is one atomic   *)
(* step, since it runs with the mutex held; condition.wait splits popWait. *)
(***************************************************************************)
EXTENDS Integers, Sequences, FiniteSets, Bags, TLC

(***************************************************************************)
(* Bounds of the model.                                                    *)
(***************************************************************************)
MaxThreads == 2

MaxDepthArg == 2

(***************************************************************************)
(* Program constants.                                                      *)
(***************************************************************************)
\* (unsigned short)~0, the default of Config::maxDirDepth; also the width of dirDepth
USHORT_MAX == 65535

\* ~0ULL as "filter not set" for filterUID / filterGID / filterMountID
NO_ID == -1

EXIT_SUCCESS == 0

EXIT_FAILURE == 1

(***************************************************************************)
(* The directory tree that is scanned (finite and static).  Each node has  *)
(* the d_type hint readdir reports for it, the file type lstat reports     *)
(* (mode), and the stat fields the filters read.  entries is the readdir   *)
(* order of a directory.                                                   *)
(*   A/            dev 1                                                   *)
(*   A/s/          dev 1, hint DT_DIR                                      *)
(*   A/f1          regular, size 10                                        *)
(*   A/m/          dev 2 (mount point of another filesystem)               *)
(*   A/s/f2        regular, size 20, hint DT_UNKNOWN                       *)
(*   A/s/d/        dev 1, hint DT_UNKNOWN                                  *)
(*   A/s/d/h1      regular, size 10                                        *)
(*   A/m/g1        regular, 4 MiB + 20 bytes (two copy chunks), dev 2      *)
(*   A/m/l1        symbolic link, dev 2                                    *)
(*   A/m/' '       symbolic link, hint DT_UNKNOWN, dev 2 (the name is a    *)
(*                 quote, a blank and a quote)                             *)
(*   E/            a second tree: an empty directory                       *)
(* A/f1 has an access ACL, A/s an access and a default ACL.                *)
(***************************************************************************)
FS ==
  << [name |-> <<"A">>,      parent |-> 0, dtype |-> "DT_DIR",     mode |-> "S_IFDIR",
      dev |-> 1, size |-> 0,  uid |-> 0, gid |-> 0, atime |-> 5, ctime |-> 5, mtime |-> 5,
      entries |-> <<2, 3, 4>>],
     [name |-> <<"s">>,      parent |-> 1, dtype |-> "DT_DIR",     mode |-> "S_IFDIR",
      dev |-> 1, size |-> 0,  uid |-> 0, gid |-> 0, atime |-> 5, ctime |-> 5, mtime |-> 5,
      entries |-> <<5, 6>>],
     [name |-> <<"f", "1">>, parent |-> 1, dtype |-> "DT_REG",     mode |-> "S_IFREG",
      dev |-> 1, size |-> 10, uid |-> 0, gid |-> 0, atime |-> 5, ctime |-> 5, mtime |-> 3,
      entries |-> << >>],
     [name |-> <<"m">>,      parent |-> 1, dtype |-> "DT_DIR",     mode |-> "S_IFDIR",
      dev |-> 2, size |-> 0,  uid |-> 1, gid |-> 1, atime |-> 5, ctime |-> 5, mtime |-> 5,
      entries |-> <<8, 9, 11>>],
     [name |-> <<"f", "2">>, parent |-> 2, dtype |-> "DT_UNKNOWN", mode |-> "S_IFREG",
      dev |-> 1, size |-> 20, uid |-> 1, gid |-> 0, atime |-> 5, ctime |-> 5, mtime |-> 7,
      entries |-> << >>],
     [name |-> <<"d">>,      parent |-> 2, dtype |-> "DT_UNKNOWN", mode |-> "S_IFDIR",
      dev |-> 1, size |-> 0,  uid |-> 0, gid |-> 0, atime |-> 5, ctime |-> 5, mtime |-> 5,
      entries |-> <<7>>],
     [name |-> <<"h", "1">>, parent |-> 6, dtype |-> "DT_REG",     mode |-> "S_IFREG",
      dev |-> 1, size |-> 10, uid |-> 0, gid |-> 1, atime |-> 5, ctime |-> 5, mtime |-> 5,
      entries |-> << >>],
     [name |-> <<"g", "1">>, parent |-> 4, dtype |-> "DT_REG",     mode |-> "S_IFREG",
      dev |-> 2, size |-> 4194324, uid |-> 1, gid |-> 1, atime |-> 5, ctime |-> 5,
      mtime |-> 5, entries |-> << >>],
     [name |-> <<"l", "1">>, parent |-> 4, dtype |-> "DT_LNK",     mode |-> "S_IFLNK",
      dev |-> 2, size |-> 3,  uid |-> 1, gid |-> 1, atime |-> 5, ctime |-> 5, mtime |-> 5,
      entries |-> << >>],
     [name |-> <<"E">>,      parent |-> 0, dtype |-> "DT_DIR",     mode |-> "S_IFDIR",
      dev |-> 1, size |-> 0,  uid |-> 0, gid |-> 0, atime |-> 5, ctime |-> 5, mtime |-> 5,
      entries |-> << >>],
     [name |-> <<"'", " ", "'">>, parent |-> 4, dtype |-> "DT_UNKNOWN", mode |-> "S_IFLNK",
      dev |-> 2, size |-> 1,  uid |-> 1, gid |-> 1, atime |-> 5, ctime |-> 5, mtime |-> 5,
      entries |-> << >>] >>

\* the nodes with a system.posix_acl_access extended attribute
AccessACLs == {2, 3}

\* the directories with a system.posix_acl_default extended attribute
DefaultACLs == {2}

Nodes == 1..Len(FS)

\* the path under which the kernel knows node n of the tree fs: parent path
\* + "/" + name
RECURSIVE PathIn(_, _)
PathIn(fs, n) ==
  IF fs[n].parent = 0 THEN fs[n].name
  ELSE PathIn(fs, fs[n].parent) \o <<"/">> \o fs[n].name

PathOf(n) == PathIn(FS, n)

\* number of directory levels between node n of fs and the root of its tree
RECURSIVE LevelIn(_, _)
LevelIn(fs, n) == IF fs[n].parent = 0 THEN 0 ELSE 1 + LevelIn(fs, fs[n].parent)

LevelOf(n) == LevelIn(FS, n)

\* the path of every node of the tree fs
PathsIn(fs) == [n \in DOMAIN fs |-> PathIn(fs, n)]

PathTable == PathsIn(FS)

\* the node of every path of the table
NodesByPath(table) ==
  [p \in {table[n] : n \in DOMAIN table} |-> CHOOSE n \in DOMAIN table : table[n] = p]

NodeOfPath == NodesByPath(PathTable)

\* path resolution by the kernel (lstat, opendir): a trailing slash on a
\* directory path is ignored; 0 stands for ENOENT
Resolve(path) ==
  LET p == IF Len(path) > 1 /\ path[Len(path)] = "/"
           THEN SubSeq(path, 1, Len(path) - 1) ELSE path
  IN  IF p \in DOMAIN NodeOfPath THEN NodeOfPath[p] ELSE 0

(***************************************************************************)
(* fnmatch(pattern, string, 0) for patterns of literal characters, '*' and *)
(* '?' (flags 0: '/' and a leading '.' are ordinary characters).           *)
(***************************************************************************)
RECURSIVE fnmatch(_, _)
fnmatch(pattern, string) ==
  IF pattern = << >> THEN string = << >>
  ELSE IF Head(pattern) = "*"
       THEN \/ fnmatch(Tail(pattern), string)
            \/ string # << >> /\ fnmatch(pattern, Tail(string))
  ELSE IF string = << >> THEN FALSE
  ELSE IF Head(pattern) = "?" THEN fnmatch(Tail(pattern), Tail(string))
  ELSE Head(pattern) = Head(string) /\ fnmatch(Tail(pattern), Tail(string))

\* std::filesystem::path(entryPath).filename(): what follows the last '/'
\* (empty when the path ends in '/')
RECURSIVE filename(_)
filename(path) ==
  IF path = << >> THEN << >>
  ELSE IF path[Len(path)] = "/" THEN << >>
  ELSE filename(SubSeq(path, 1, Len(path) - 1)) \o <<path[Len(path)]>>

(***************************************************************************)
(* struct stat as the filters read it; ok = FALSE stands for the NULL      *)
(* statBuf pointer.  A dirent is represented by its d_type; "NULL" stands  *)
(* for the NULL dirEntry pointer that main() passes for scan paths.        *)
(***************************************************************************)
NullStat ==
  [ok |-> FALSE, mode |-> "NONE", dev |-> 0, size |-> 0, uid |-> 0, gid |-> 0,
   atime |-> 0, ctime |-> 0, mtime |-> 0]

StatOf(n) ==
  [ok |-> TRUE, mode |-> FS[n].mode, dev |-> FS[n].dev, size |-> FS[n].size,
   uid |-> FS[n].uid, gid |-> FS[n].gid,
   atime |-> FS[n].atime, ctime |-> FS[n].ctime, mtime |-> FS[n].mtime]

\* the find(1) type character of a d_type (switch in filterPrintEntryByType)
MatchTypeOfDType(dtype) ==
  CASE dtype = "DT_BLK"  -> "b"
    [] dtype = "DT_CHR"  -> "c"
    [] dtype = "DT_DIR"  -> "d"
    [] dtype = "DT_FIFO" -> "p"
    [] dtype = "DT_LNK"  -> "l"
    [] dtype = "DT_REG"  -> "f"
    [] dtype = "DT_SOCK" -> "s"
    [] OTHER             -> "0"

\* the find(1) type character of a st_mode (if-chain in filterPrintEntryByType)
MatchTypeOfMode(mode) ==
  CASE mode = "S_IFBLK"  -> "b"
    [] mode = "S_IFCHR"  -> "c"
    [] mode = "S_IFDIR"  -> "d"
    [] mode = "S_IFIFO"  -> "p"
    [] mode = "S_IFLNK"  -> "l"
    [] mode = "S_IFREG"  -> "f"
    [] mode = "S_IFSOCK" -> "s"
    [] OTHER             -> "0"

\* searchType "0" is the unset filter (char 0)
filterPrintEntryByType(c, entryPath, dtype, statBuf) ==
  IF c.searchType = "0" THEN TRUE
  ELSE IF dtype # "NULL" /\ dtype # "DT_UNKNOWN"
       THEN MatchTypeOfDType(dtype) = c.searchType
  ELSE IF statBuf.ok THEN MatchTypeOfMode(statBuf.mode) = c.searchType
  ELSE FALSE

filterPrintEntryByName(c, entryPath, dtype, statBuf) ==
  IF c.nameFilterVec = << >> THEN TRUE
  ELSE \E i \in 1..Len(c.nameFilterVec) :
         fnmatch(c.nameFilterVec[i], filename(entryPath))

\* variant: everything is taken for a file
IsFile_Any(dtype, statBuf) == TRUE

\* isFile of filterPrintEntryByPath and filterPrintEntryBySizeOrTime
IsFile(dtype, statBuf) ==
  \/ dtype # "NULL" /\ dtype # "DT_UNKNOWN" /\ dtype # "DT_DIR"
  \/ statBuf.ok /\ statBuf.mode # "S_IFDIR"

filterPrintEntryByPath(c, entryPath, dtype, statBuf) ==
  IF c.pathFilter = << >> THEN TRUE
  ELSE IF ~IsFile(dtype, statBuf) THEN FALSE
  ELSE fnmatch(c.pathFilter, entryPath)

\* variant: GREATER lets the threshold itself pass
CHECK_EXACT_LESS_GREATER_VAL_Inclusive(c, name, val) ==
  /\ ~(<<name, "EXACT">> \in c.filterSizeAndTimeFlags /\ val # c.filterVal[name].exact)
  /\ ~(<<name, "LESS">> \in c.filterSizeAndTimeFlags /\ val >= c.filterVal[name].less)
  /\ ~(<<name, "GREATER">> \in c.filterSizeAndTimeFlags /\ val < c.filterVal[name].greater)

\* variant: the LESS comparison the wrong way round
CHECK_EXACT_LESS_GREATER_VAL_Swapped(c, name, val) ==
  /\ ~(<<name, "EXACT">> \in c.filterSizeAndTimeFlags /\ val # c.filterVal[name].exact)
  /\ ~(<<name, "LESS">> \in c.filterSizeAndTimeFlags /\ val < c.filterVal[name].less)
  /\ ~(<<name, "GREATER">> \in c.filterSizeAndTimeFlags /\ val <= c.filterVal[name].greater)

\* macro _CHECK_EXACT_LESS_GREATER_VAL: TRUE when the macro "runs through"
CHECK_EXACT_LESS_GREATER_VAL(c, name, val) ==
  /\ ~(<<name, "EXACT">> \in c.filterSizeAndTimeFlags /\ val # c.filterVal[name].exact)
  /\ ~(<<name, "LESS">> \in c.filterSizeAndTimeFlags /\ val >= c.filterVal[name].less)
  /\ ~(<<name, "GREATER">> \in c.filterSizeAndTimeFlags /\ val <= c.filterVal[name].greater)

filterPrintEntryBySizeOrTime(c, entryPath, dtype, statBuf) ==
  IF c.filterSizeAndTimeFlags = {} THEN TRUE
  ELSE IF ~IsFile(dtype, statBuf) THEN FALSE
  ELSE IF ~statBuf.ok THEN FALSE
  ELSE /\ CHECK_EXACT_LESS_GREATER_VAL(c, "size", statBuf.size)
       /\ CHECK_EXACT_LESS_GREATER_VAL(c, "atime", statBuf.atime)
       /\ CHECK_EXACT_LESS_GREATER_VAL(c, "ctime", statBuf.ctime)
       /\ CHECK_EXACT_LESS_GREATER_VAL(c, "mtime", statBuf.mtime)

filterPrintEntryByUIDAndGID(c, entryPath, dtype, statBuf) ==
  /\ c.filterUID # NO_ID => (statBuf.ok /\ statBuf.uid = c.filterUID)
  /\ c.filterGID # NO_ID => (statBuf.ok /\ statBuf.gid = c.filterGID)

\* the filter chain at the head of processDiscoveredEntry
PassesFilters(c, entryPath, dtype, statBuf) ==
  /\ filterPrintEntryByType(c, entryPath, dtype, statBuf)
  /\ filterPrintEntryByName(c, entryPath, dtype, statBuf)
  /\ filterPrintEntryByPath(c, entryPath, dtype, statBuf)
  /\ filterPrintEntryBySizeOrTime(c, entryPath, dtype, statBuf)
  /\ filterPrintEntryByUIDAndGID(c, entryPath, dtype, statBuf)

(***************************************************************************)
(* Command line and Config.  Args is what the user gives; ParseArguments   *)
(* is the Config that parseArguments leaves behind.                        *)
(***************************************************************************)
NoFilterVal ==
  [f \in {"size", "atime", "ctime", "mtime"} |-> [exact |-> 0, less |-> 0, greater |-> 0]]

\* parseSizeArgSuffix: the bytes value of the number val that --size was given
\* with the suffix character suffix ("" for none: 512 byte blocks); the
\* product is an unsigned long long, which the numbers used here do not exceed
parseSizeArgSuffix(val, suffix) ==
  val * (CASE suffix \in {"", "b"} -> 512
            [] suffix = "c" -> 1
            [] suffix = "w" -> 2
            [] suffix = "k" -> 1024
            [] suffix = "M" -> 1024 * 1024
            [] suffix = "G" -> 1024 * 1024 * 1024)

\* parseExactLessGreaterVal for --size: the threshold that was given, in bytes
SizeThresholds(v, suffix) ==
  [exact |-> parseSizeArgSuffix(v.exact, suffix),
   less |-> parseSizeArgSuffix(v.less, suffix),
   greater |-> parseSizeArgSuffix(v.greater, suffix)]

\* --xdev / --mount, size and time filters, --uid, --gid, --copyto and --unlink
\* set statAll.  (--copyto with more than one scan path is refused.)
ParseArguments(a) ==
  [numThreads |-> a.threads,
   depthSearchStartThreshold |-> IF a.godeep = 0 THEN a.threads ELSE a.godeep,
   statAll |-> \/ a.stat \/ a.xdev \/ a.sizeTimeFlags # {}
               \/ a.uid # NO_ID \/ a.gid # NO_ID
               \/ a.copyto # << >> \/ a.unlink,
   printJSON |-> a.json,
   maxDirDepth |-> a.maxdepth % (USHORT_MAX + 1),
   scanPaths |-> a.paths,
   searchType |-> a.type,
   nameFilterVec |-> a.names,
   pathFilter |-> a.path,
   filterSizeAndTimeFlags |-> a.sizeTimeFlags,
   filterVal |-> [a.filterVal EXCEPT !["size"] = SizeThresholds(@, a.sizeUnit)],
   filterUID |-> a.uid,
   filterGID |-> a.gid,
   filterMountID |-> IF a.xdev THEN FS[Resolve(Head(a.paths))].dev ELSE NO_ID,
   copyDestDir |-> a.copyto,
   ignoreCopyErrors |-> a.nocopyerr,
   copyTimeUpdate |-> ~a.notimeupd,
   printEntriesDisabled |-> a.noprint,
   unlinkFiles |-> a.unlink,
   ignoreUnlinkErrors |-> a.nodelerr,
   execCmdLine |-> a.exec,
   quitAfterFirstMatch |-> a.quit,
   checkACLs |-> a.aclcheck]

\* elfindo -t 2 A : everything else at the defaults of struct Config
DefaultArgs ==
  [threads |-> 2, godeep |-> 0, stat |-> FALSE, json |-> FALSE, maxdepth |-> USHORT_MAX,
   paths |-> << <<"A">> >>, type |-> "0", names |-> << >>, path |-> << >>,
   sizeTimeFlags |-> {}, filterVal |-> NoFilterVal, sizeUnit |-> "c",
   uid |-> NO_ID, gid |-> NO_ID,
   xdev |-> FALSE, noprint |-> FALSE, quit |-> FALSE,
   copyto |-> << >>, nocopyerr |-> FALSE, notimeupd |-> FALSE,
   unlink |-> FALSE, nodelerr |-> FALSE, exec |-> << >>, aclcheck |-> FALSE]

(***************************************************************************)
(* State.                                                                  *)
(***************************************************************************)
VARIABLES
  args,          \* the command line of this run
  config,        \* struct Config
  faults,        \* the I/O calls that fail in this environment (static)
  mainPc,        \* main(): "seed", "join", "returned"; or the process "killed"
  pathIdx,       \* main(): index of the next scan path
  retVal,        \* main(): exit code
  dirPathStack,  \* SharedStack::dirPathStack, top at the end
  numWaiters,    \* SharedStack::numWaiters
  stackSize,     \* SharedStack::stackSize
  pc,            \* per scan thread: where it is
  frames,        \* per scan thread: the scan() calls on its call stack
  statistics,    \* struct Statistics
  emitted,       \* bag of the records printed on stdout
  effects,       \* what else the pipeline did: bags of entries processed, commands
                 \* run, entries copied, paths unlinked
  eligible,      \* history: bag of directory paths found eligible for descent
  scanCalls,     \* history: bag of directory paths scan() was called with
  run,           \* 1 in the first run of the program, 2 in a re-run
  firstArgs,     \* the command line of the first run (in a re-run)
  firstEmitted   \* what the first run printed (in a re-run)

vars ==
  << args, config, faults, mainPc, pathIdx, retVal, dirPathStack, numWaiters, stackSize,
     pc, frames, statistics, emitted, effects, eligible, scanCalls, run, firstArgs,
     firstEmitted >>

stackVars == << dirPathStack, numWaiters, stackSize >>

runVars == << args, faults, run, firstArgs, firstEmitted >>

ioVars == << statistics, emitted, effects >>

Threads == 1..config.numThreads

ZeroStatistics ==
  [numDirsFound |-> 0, numFilesFound |-> 0, numUnknownFound |-> 0, numFilterMatches |-> 0,
   numStatCalls |-> 0, numErrors |-> 0, numBytesCopied |-> 0, numFilesNotCopied |-> 0,
   numAccessACLsFound |-> 0, numDefaultACLsFound |-> 0]

NoEffects ==
  [processed |-> EmptyBag, execd |-> EmptyBag, copied |-> EmptyBag, unlinked |-> EmptyBag,
   failures |-> EmptyBag, opened |-> EmptyBag, closed |-> EmptyBag]

\* the state in which main() starts after parseArguments(a)
Start(a, f) ==
  /\ args = a
  /\ config = ParseArguments(a)
  /\ faults = f
  /\ mainPc = "seed"
  /\ pathIdx = 1
  /\ retVal = EXIT_SUCCESS
  /\ dirPathStack = << >>
  /\ numWaiters = 0
  /\ stackSize = 0
  /\ pc = [t \in 1..a.threads |-> "idle"]
  /\ frames = [t \in 1..a.threads |-> << >>]
  /\ statistics = ZeroStatistics
  /\ emitted = EmptyBag
  /\ effects = NoEffects
  /\ eligible = EmptyBag
  /\ scanCalls = EmptyBag

(***************************************************************************)
(* Faults: <<call, n, errno>> says that the call on node n fails with      *)
(* errno ("0" is success).  Calls: "lstat", "opendir", "readdir" (the      *)
(* ReaddirFailsAt-th call on the stream of directory n), "fstatat",        *)
(* "lgetxattr" and "lgetxattr_default" (checkACLs), "mkdir", "readlink",   *)
(* "symlink", "open" (the copy source), "open_dest", "read", "write",      *)
(* "shortwrite" (each on the last chunk of the file), "utimens", "unlink". *)
(* <<"system", n, "SIGNAL">>: the exec command for n dies by a signal.     *)
(* <<"nullread", 0, mode>>: what a read of statBuf->st_mode through a NULL *)
(* statBuf gives when it does not end the process by SIGSEGV.              *)
(***************************************************************************)
Errno(call, n) ==
  IF \E f \in faults : f[1] = call /\ f[2] = n
  THEN (CHOOSE f \in faults : f[1] = call /\ f[2] = n)[3]
  ELSE "0"

(***************************************************************************)
(* Per-entry pipeline.                                                     *)
(***************************************************************************)
\* the type tag of a JSON record (printEntry)
JSONType(dtype, statBuf) ==
  LET tag(ch) == CASE ch = "b" -> "blockdev" [] ch = "c" -> "chardev" [] ch = "d" -> "dir"
                   [] ch = "p" -> "fifo" [] ch = "l" -> "symlink" [] ch = "f" -> "regfile"
                   [] ch = "s" -> "unixsock" [] OTHER -> "unknown"
  IN  IF dtype # "NULL" /\ dtype # "DT_UNKNOWN" THEN tag(MatchTypeOfDType(dtype))
      ELSE IF statBuf.ok THEN tag(MatchTypeOfMode(statBuf.mode))
      ELSE "unknown"

\* The pipeline works on a record w of what it changes: emitted, statistics,
\* effects, the calls made for the entry so far (trace), and fate: "ok", or
\* how the process ended inside the pipeline: "exited" (exit(1)), "killed"
\* (kill(0, SIGTERM)), "crashed" (SIGSEGV)
World(out, stats, eff) ==
  [emitted |-> out, statistics |-> stats, effects |-> eff, fate |-> "ok",
   trace |-> << >>, rejected |-> FALSE]

\* the call of a filter or an action of processDiscoveredEntry
Called(w, stage) == [w EXCEPT !.trace = Append(@, stage)]

\* a failed system call, as the diagnostic on stderr tells it
Failed(w, call, entryPath) ==
  [w EXCEPT !.effects.failures = @ (+) SetToBag({[call |-> call, path |-> entryPath]})]

printEntry(c, w, entryPath, dtype, statBuf) ==
  IF c.printEntriesDisabled THEN w
  ELSE IF ~c.printJSON
       THEN [w EXCEPT !.emitted = @ (+)
               SetToBag({[path |-> entryPath, type |-> "plain", fields |-> "none"]})]
  ELSE [w EXCEPT !.emitted = @ (+)
          SetToBag({[path |-> entryPath, type |-> JSONType(dtype, statBuf),
                     fields |-> IF ~c.statAll THEN "none"
                                ELSE IF statBuf.ok THEN "stat" ELSE "null"]})]

\* replacePathPlaceholerWithPath: every "{}" of subject, left to right; the
\* search goes on behind the inserted path
RECURSIVE replacePathPlaceholerWithPath(_, _)
replacePathPlaceholerWithPath(subject, path) ==
  IF Len(subject) < 2 THEN subject
  ELSE IF subject[1] = "{" /\ subject[2] = "}"
       THEN path \o replacePathPlaceholerWithPath(Tail(Tail(subject)), path)
  ELSE << Head(subject) >> \o replacePathPlaceholerWithPath(Tail(subject), path)

\* the quoted arguments cmdLineStrVec[i..] of the command string
RECURSIVE QuotedArgs(_, _, _)
QuotedArgs(cmdLineStrVec, i, entryPath) ==
  IF i > Len(cmdLineStrVec) THEN << >>
  ELSE <<"'">> \o replacePathPlaceholerWithPath(cmdLineStrVec[i], entryPath) \o <<"'", " ">>
         \o QuotedArgs(cmdLineStrVec, i + 1, entryPath)

\* variant: the placeholder is replaced in the command element as well
CommandStr_SubstituteCommand(cmdLineStrVec, entryPath) ==
  QuotedArgs(cmdLineStrVec, 1, entryPath)

\* commandStr of execSystemCommand: the executable as given, then the arguments
CommandStr(cmdLineStrVec, entryPath) ==
  <<"'">> \o cmdLineStrVec[1] \o <<"'", " ">> \o QuotedArgs(cmdLineStrVec, 2, entryPath)

execSystemCommand(c, w, entryPath) ==
  IF c.execCmdLine = << >> THEN w
  ELSE LET ran == [w EXCEPT !.effects.execd = @ (+)
                     SetToBag({[path |-> entryPath,
                                commandStr |-> CommandStr(c.execCmdLine, entryPath)]})]
       IN  IF Errno("system", Resolve(entryPath)) = "SIGNAL"
           THEN [ran EXCEPT !.fate = "killed"]
           ELSE ran

\* EXIT_OR_RETURN_CONFIGURABLE after statistics.numErrors++
ErrorExitOrReturn(w, ignoreError) ==
  [w EXCEPT !.statistics.numErrors = @ + 1,
            !.fate = IF ignoreError THEN "ok" ELSE "exited"]

\* statBuf->st_mode as copyEntry and unlinkEntry read it, without a test for
\* NULL: through a NULL statBuf the read is undefined, it ends the process by
\* SIGSEGV or gives some mode
ModeRead(statBuf) ==
  IF statBuf.ok THEN statBuf.mode
  ELSE IF Errno("nullread", 0) = "0" THEN "SIGSEGV"
  ELSE Errno("nullread", 0)

\* variant: a failed timestamp update ends the copy like the other errors
CopyTimeUpdate_Fatal(c, w, entryPath, n) ==
  IF c.copyTimeUpdate /\ Errno("utimens", n) # "0"
  THEN ErrorExitOrReturn(Failed(w, "utimens", entryPath), c.ignoreCopyErrors)
  ELSE w

\* "update timestamps" of a copy: a failure is counted and nothing else
CopyTimeUpdate(c, w, entryPath, n) ==
  IF c.copyTimeUpdate /\ Errno("utimens", n) # "0"
  THEN [Failed(w, "utimens", entryPath) EXCEPT !.statistics.numErrors = @ + 1]
  ELSE w

\* the entry has been copied to destPath as a directory, symlink or file
Copied(w, entryPath, destPath, kind) ==
  [w EXCEPT !.effects.copied = @ (+)
     SetToBag({[src |-> entryPath, dest |-> destPath, kind |-> kind]})]

\* "const unsigned bufSize = 4*1024*1024; // 4MiB copy buffer"
bufSize == 4 * 1024 * 1024

\* the number of read() calls that return data for a file of the given size
NumChunks(size) == (size + bufSize - 1) \div bufSize

\* variant: every read() fills the buffer
ChunkLen_Full(size, k) == bufSize

\* the bytes read() returns for chunk k (from 1) of a file of the given size
ChunkLen(size, k) == IF k * bufSize <= size THEN bufSize ELSE size - (k - 1) * bufSize

\* the call of the read/write loop that fails on chunk k of the file n, "0" if
\* none: a fault ("read", "write", "shortwrite") hits the last chunk of the file
ChunkFault(n, chunks, k) ==
  IF k # chunks THEN "0"
  ELSE IF Errno("read", n) # "0" THEN "read"
  ELSE IF Errno("write", n) # "0" THEN "write"
  ELSE IF Errno("shortwrite", n) # "0" THEN "shortwrite"
  ELSE "0"

\* the read/write loop of a regular file copy from chunk k on
RECURSIVE CopyLoop(_, _, _, _, _, _)
CopyLoop(c, w, entryPath, n, size, k) ==
  IF k > NumChunks(size) THEN w    \* read() gives 0: break
  ELSE IF ChunkFault(n, NumChunks(size), k) # "0"
       THEN ErrorExitOrReturn(Failed(w, ChunkFault(n, NumChunks(size), k), entryPath),
                              c.ignoreCopyErrors)
  ELSE CopyLoop(c, [w EXCEPT !.statistics.numBytesCopied = @ + ChunkLen(size, k)],
                entryPath, n, size, k + 1)

\* whether the read/write loop of the file ends by an error
CopyLoopFails(n, size) ==
  \E k \in 1..NumChunks(size) : ChunkFault(n, NumChunks(size), k) # "0"

\* the branches of copyEntry for the entry n with the st_mode read as mode: a
\* directory is created, a symlink read and created, a regular file copied
\* chunk by chunk; other types are counted as not copied
CopyByMode(c, w, entryPath, destPath, n, mode, isLink, isDir, size) ==
  IF mode = "SIGSEGV" THEN [w EXCEPT !.fate = "crashed"]
  ELSE IF mode = "S_IFDIR"
  THEN IF Errno("mkdir", n) \notin {"0", "EEXIST"}
       THEN ErrorExitOrReturn(Failed(w, "mkdir", entryPath), c.ignoreCopyErrors)
       ELSE CopyTimeUpdate(c, Copied(w, entryPath, destPath, "dir"), entryPath, n)
  ELSE IF mode = "S_IFLNK"
  THEN IF Errno("malloc", n) # "0" THEN [w EXCEPT !.fate = "exited"]
       ELSE IF Errno("readlink", n) # "0" \/ ~isLink    \* EINVAL when it is no symlink
            THEN ErrorExitOrReturn(Failed(w, "readlink", entryPath), c.ignoreCopyErrors)
       ELSE IF Errno("symlink", n) \notin {"0", "EEXIST"}
            THEN ErrorExitOrReturn(Failed(w, "symlink", entryPath), c.ignoreCopyErrors)
       ELSE CopyTimeUpdate(c, Copied(w, entryPath, destPath, "symlink"), entryPath, n)
  ELSE IF mode = "S_IFREG"
  THEN IF Errno("open", n) # "0"
       THEN ErrorExitOrReturn(Failed(w, "open", entryPath), c.ignoreCopyErrors)
       ELSE IF Errno("open_dest", n) # "0"
            THEN ErrorExitOrReturn(Failed(w, "open_dest", entryPath), c.ignoreCopyErrors)
       ELSE IF Errno("malloc", n) # "0" THEN [w EXCEPT !.fate = "exited"]
       ELSE IF isDir    \* read() of a directory: EISDIR
            THEN ErrorExitOrReturn(Failed(w, "read", entryPath), c.ignoreCopyErrors)
       ELSE IF CopyLoopFails(n, size) THEN CopyLoop(c, w, entryPath, n, size, 1)
       ELSE CopyTimeUpdate(c,
              Copied(CopyLoop(c, w, entryPath, n, size, 1), entryPath, destPath, "file"),
              entryPath, n)
  ELSE [w EXCEPT !.statistics.numFilesNotCopied = @ + 1]

\* the entry n as the file system has it, for copyEntry
CopyNode(c, w, entryPath, destPath, n, mode, node) ==
  CopyByMode(c, w, entryPath, destPath, n, mode,
             node.mode = "S_IFLNK", node.mode = "S_IFDIR", node.size)

\* copyEntry: destPath is copyDestDir + "/" + the entry path behind the first
\* scan path
copyEntry(c, w, entryPath, statBuf) ==
  IF c.copyDestDir = << >> THEN w
  ELSE CopyNode(c, w, entryPath,
         c.copyDestDir \o <<"/">>
           \o SubSeq(entryPath, Len(Head(c.scanPaths)) + 1, Len(entryPath)),
         Resolve(entryPath), ModeRead(statBuf), FS[Resolve(entryPath)])

\* unlink() of the entry n
Unlink(c, w, entryPath, n) ==
  IF Errno("unlink", n) # "0"
  THEN ErrorExitOrReturn(
         Failed([w EXCEPT !.effects.unlinked = @ (+) SetToBag({entryPath})],
                "unlink", entryPath),
         c.ignoreUnlinkErrors)
  ELSE [w EXCEPT !.effects.unlinked = @ (+) SetToBag({entryPath})]

\* the directory test of unlinkEntry on the st_mode read as mode
UnlinkByMode(c, w, entryPath, mode) ==
  IF mode = "SIGSEGV" THEN [w EXCEPT !.fate = "crashed"]
  ELSE IF mode = "S_IFDIR" THEN w
  ELSE Unlink(c, w, entryPath, Resolve(entryPath))

\* unlinkEntry: effects.unlinked has the paths unlink() was called with
unlinkEntry(c, w, entryPath, statBuf) ==
  IF ~c.unlinkFiles THEN w
  ELSE UnlinkByMode(c, w, entryPath, ModeRead(statBuf))

\* checkACLs: the access ACL of the entry and, for a directory, its default
\* ACL; a found default ACL is counted in numAccessACLsFound as well
checkACLs(c, w, entryPath, n, isDirectory) ==
  IF ~c.checkACLs THEN w
  ELSE LET accErr == IF Errno("lgetxattr", n) # "0" THEN Errno("lgetxattr", n)
                     ELSE IF n \in AccessACLs THEN "0" ELSE "ENODATA"
           defErr == IF Errno("lgetxattr_default", n) # "0"
                     THEN Errno("lgetxattr_default", n)
                     ELSE IF n \in DefaultACLs THEN "0" ELSE "ENODATA"
           w1 == IF accErr = "0" THEN [w EXCEPT !.statistics.numAccessACLsFound = @ + 1]
                 ELSE IF accErr \notin {"ENODATA", "ENOTSUP"}
                      THEN Failed(w, "lgetxattr", entryPath)
                 ELSE w
       IN  IF ~isDirectory THEN w1
           ELSE IF defErr = "0" THEN [w1 EXCEPT !.statistics.numAccessACLsFound = @ + 1]
           ELSE IF defErr \notin {"ENODATA", "ENOTSUP"}
                THEN Failed(w1, "lgetxattr_default", entryPath)
           ELSE w1

\* the filters of processDiscoveredEntry, each with its "return" when it
\* rejects the entry (w.rejected)
Filters(c, w, entryPath, dtype, statBuf) ==
  LET reject(v) == [v EXCEPT !.rejected = TRUE]
      f1 == Called(w, "type")
      f2 == Called(f1, "name")
      f3 == Called(f2, "path")
      f4 == Called(f3, "sizetime")
      f5 == Called(f4, "uidgid")
  IN  IF ~filterPrintEntryByType(c, entryPath, dtype, statBuf) THEN reject(f1)
      ELSE IF ~filterPrintEntryByName(c, entryPath, dtype, statBuf) THEN reject(f2)
      ELSE IF ~filterPrintEntryByPath(c, entryPath, dtype, statBuf) THEN reject(f3)
      ELSE IF ~filterPrintEntryBySizeOrTime(c, entryPath, dtype, statBuf) THEN reject(f4)
      ELSE IF ~filterPrintEntryByUIDAndGID(c, entryPath, dtype, statBuf) THEN reject(f5)
      ELSE f5

\* variant: the entry is unlinked before it is copied
Actions_UnlinkFirst(c, w, entryPath, dtype, statBuf) ==
  LET w1 == printEntry(c, Called(w, "print"), entryPath, dtype, statBuf)
      w2 == execSystemCommand(c, Called(w1, "exec"), entryPath)
      w3 == IF w2.fate = "ok"
            THEN unlinkEntry(c, Called(w2, "unlink"), entryPath, statBuf) ELSE w2
      w4 == IF w3.fate = "ok"
            THEN copyEntry(c, Called(w3, "copy"), entryPath, statBuf) ELSE w3
  IN  w4

\* the actions of processDiscoveredEntry on an entry the filters let pass;
\* a call is made only if the process is still there
Actions(c, w, entryPath, dtype, statBuf) ==
  LET w1 == printEntry(c, Called(w, "print"), entryPath, dtype, statBuf)
      w2 == execSystemCommand(c, Called(w1, "exec"), entryPath)
      w3 == IF w2.fate = "ok"
            THEN copyEntry(c, Called(w2, "copy"), entryPath, statBuf) ELSE w2
      w4 == IF w3.fate = "ok"
            THEN unlinkEntry(c, Called(w3, "unlink"), entryPath, statBuf) ELSE w3
  IN  w4

\* the entry and the calls made for it, for effects.processed
Processed(w, entryPath, dtype, statBuf) ==
  [w EXCEPT !.effects.processed = @ (+)
     SetToBag({[path |-> entryPath, dtype |-> dtype, statBuf |-> statBuf,
                trace |-> w.trace]})]

\* variant: numFilterMatches counts the rejected entries as well
processDiscoveredEntry_CountAll(c, w, entryPath, dtype, statBuf) ==
  LET f == Filters(c, w, entryPath, dtype, statBuf)
      a == Actions(c, f, entryPath, dtype, statBuf)
  IN  IF f.rejected
      THEN Processed([Called(f, "count") EXCEPT !.statistics.numFilterMatches = @ + 1],
                     entryPath, dtype, statBuf)
      ELSE IF a.fate # "ok" THEN Processed(a, entryPath, dtype, statBuf)
      ELSE Processed([Called(a, "count") EXCEPT !.statistics.numFilterMatches = @ + 1],
                     entryPath, dtype, statBuf)

\* variant: directories by d_type are not given to the pipeline
processDiscoveredEntry_FilesOnly(c, w, entryPath, dtype, statBuf) ==
  LET f == Filters(c, w, entryPath, dtype, statBuf)
      a == Actions(c, f, entryPath, dtype, statBuf)
  IN  IF dtype = "DT_DIR" THEN w
      ELSE IF f.rejected THEN Processed(f, entryPath, dtype, statBuf)
      ELSE IF a.fate # "ok" THEN Processed(a, entryPath, dtype, statBuf)
      ELSE Processed([Called(a, "count") EXCEPT !.statistics.numFilterMatches = @ + 1],
                     entryPath, dtype, statBuf)

\* processDiscoveredEntry: the filters, then print, exec, copy, unlink and
\* numFilterMatches++
processDiscoveredEntry(c, w, entryPath, dtype, statBuf) ==
  LET f == Filters(c, w, entryPath, dtype, statBuf)
      a == Actions(c, f, entryPath, dtype, statBuf)
  IN  IF f.rejected THEN Processed(f, entryPath, dtype, statBuf)
      ELSE IF a.fate # "ok" THEN Processed(a, entryPath, dtype, statBuf)
      ELSE Processed([Called(a, "count") EXCEPT !.statistics.numFilterMatches = @ + 1],
                     entryPath, dtype, statBuf)

\* the process after a pipeline call: gone unless the fate is "ok"
AfterPipeline(w) ==
  /\ emitted' = w.emitted
  /\ statistics' = w.statistics
  /\ effects' = w.effects
  /\ mainPc' = IF w.fate = "ok" THEN mainPc ELSE w.fate
  /\ retVal' = IF w.fate = "exited" THEN EXIT_FAILURE ELSE retVal

(***************************************************************************)
(* SharedStack.                                                            *)
(***************************************************************************)
\* variant: the notification of push is lost
NotifyOne_Lost(p) == {p}

\* condition.notify_one(): one of the threads blocked in condition.wait, if any
NotifyOne(p) ==
  IF \A t \in DOMAIN p : p[t] # "waiting" THEN {p}
  ELSE {[p EXCEPT ![v] = "woken"] : v \in {t \in DOMAIN p : p[t] = "waiting"}}

\* mutant: the broadcast is forgotten
NotifyAll_Forgotten(p) == p

\* condition.notify_all()
NotifyAll(p) == [t \in DOMAIN p |-> IF p[t] = "waiting" THEN "woken" ELSE p[t]]

\* variant: the atomic counter is not incremented
push_Uncounted(dirPath, dirDepth, newPc) ==
  /\ dirPathStack' = Append(dirPathStack, [dirPath |-> dirPath, dirDepth |-> dirDepth])
  /\ pc' \in NotifyOne(newPc)
  /\ UNCHANGED << stackSize, numWaiters >>

\* variant: the element does not get onto the stack
push_Dropped(dirPath, dirDepth, newPc) ==
  /\ stackSize' = stackSize + 1
  /\ pc' \in NotifyOne(newPc)
  /\ UNCHANGED << dirPathStack, numWaiters >>

\* SharedStack::push, called by thread t or by main() (then pc is not touched
\* by the caller); newPc is the caller's pc function after the call
push(dirPath, dirDepth, newPc) ==
  /\ dirPathStack' = Append(dirPathStack, [dirPath |-> dirPath, dirDepth |-> dirDepth])
  /\ stackSize' = stackSize + 1
  /\ pc' \in NotifyOne(newPc)
  /\ UNCHANGED numWaiters

\* mutant: the termination test never succeeds
AllWaiting_Never(nw) == nw > config.numThreads

\* mutant: the termination test is off by one
AllWaiting_Early(nw) == nw >= config.numThreads - 1

\* popWait: "all threads waiting => end of dir tree scan"
AllWaiting(nw) == nw = config.numThreads

\* variant: "if" for "while": a thread that comes out of the wait does not
\* test the stack again before it goes on
popWaitLoop_If(t, nw) ==
  IF dirPathStack = << >> /\ pc[t] # "woken"
  THEN IF AllWaiting(nw)
       THEN /\ pc' = [NotifyAll(pc) EXCEPT ![t] = "done"]
            /\ numWaiters' = nw
            /\ UNCHANGED << dirPathStack, stackSize, frames >>
       ELSE /\ pc' = [pc EXCEPT ![t] = "waiting"]
            /\ numWaiters' = nw
            /\ UNCHANGED << dirPathStack, stackSize, frames >>
  ELSE /\ numWaiters' = nw - 1
       /\ IF dirPathStack = << >>
          THEN /\ pc' = [pc EXCEPT ![t] = "returnedFalse"]
               /\ UNCHANGED << dirPathStack, stackSize, frames >>
          ELSE LET topElem == dirPathStack[Len(dirPathStack)]
               IN  /\ dirPathStack' = SubSeq(dirPathStack, 1, Len(dirPathStack) - 1)
                   /\ stackSize' = stackSize - 1
                   /\ frames' = [frames EXCEPT ![t] =
                        << [path |-> topElem.dirPath, dir |-> 0,
                            depth |-> topElem.dirDepth, idx |-> 1] >>]
                   /\ pc' = [pc EXCEPT ![t] = "scan"]

\* popWait from its while loop on, entered with numWaiters = nw and the mutex held
popWaitLoop(t, nw) ==
  IF dirPathStack = << >>
  THEN IF AllWaiting(nw)
       THEN \* notify_all and throw ScanDoneException, without numWaiters--
            /\ pc' = [NotifyAll(pc) EXCEPT ![t] = "done"]
            /\ numWaiters' = nw
            /\ UNCHANGED << dirPathStack, stackSize, frames >>
       ELSE \* condition.wait(lock)
            /\ pc' = [pc EXCEPT ![t] = "waiting"]
            /\ numWaiters' = nw
            /\ UNCHANGED << dirPathStack, stackSize, frames >>
  ELSE /\ numWaiters' = nw - 1
       /\ IF dirPathStack = << >>
          THEN \* return false: threadStart leaves its loop
               /\ pc' = [pc EXCEPT ![t] = "returnedFalse"]
               /\ UNCHANGED << dirPathStack, stackSize, frames >>
          ELSE LET topElem == dirPathStack[Len(dirPathStack)]
               IN  /\ dirPathStack' = SubSeq(dirPathStack, 1, Len(dirPathStack) - 1)
                   /\ stackSize' = stackSize - 1
                   /\ frames' = [frames EXCEPT ![t] =
                        << [path |-> topElem.dirPath, dir |-> 0,
                            depth |-> topElem.dirDepth, idx |-> 1] >>]
                   /\ pc' = [pc EXCEPT ![t] = "scan"]

(***************************************************************************)
(* Scan threads.  pc: "popWait" (about to call popWait), "waiting" (in     *)
(* condition.wait), "woken" (notified, re-acquiring the mutex), "scan" (at *)
(* the head of scan()), "readdir" (at the head of the loop), "getSize"     *)
(* (the entry is a directory to descend into), "push" (breadth search was  *)
(* chosen), "done" (ScanDoneException), "returnedFalse".                   *)
(* A frame is one scan() call: its path argument, the directory stream     *)
(* (dir, 0 before opendir), its dirDepth and the position of the stream.   *)
(***************************************************************************)
Running == mainPc = "join"

Top(t) == frames[t][Len(frames[t])]

\* threadStart: sharedStack.popWait(dirPath, dirDepth)
PopWait(t) ==
  /\ Running /\ pc[t] = "popWait"
  /\ popWaitLoop(t, numWaiters + 1)
  /\ UNCHANGED << config, mainPc, pathIdx, retVal, ioVars, eligible, scanCalls >>
  /\ UNCHANGED runVars

\* popWait: condition.wait returns with the mutex held, the loop tests again
Woken(t) ==
  /\ Running /\ pc[t] = "woken"
  /\ popWaitLoop(t, numWaiters)
  /\ UNCHANGED << config, mainPc, pathIdx, retVal, ioVars, eligible, scanCalls >>
  /\ UNCHANGED runVars

\* condition.wait may return without a notification
SpuriousWakeup(t) ==
  /\ Running /\ pc[t] = "waiting"
  /\ pc' = [pc EXCEPT ![t] = "woken"]
  /\ UNCHANGED << config, mainPc, pathIdx, retVal, stackVars, frames, ioVars,
                  eligible, scanCalls >>
  /\ UNCHANGED runVars

\* frames and pc of t after its innermost scan() returns
ReturnFromScan(t) ==
  LET rest == SubSeq(frames[t], 1, Len(frames[t]) - 1)
  IN  IF rest = << >>
      THEN /\ frames' = [frames EXCEPT ![t] = << >>]
           /\ pc' = [pc EXCEPT ![t] = "popWait"]
      ELSE /\ frames' = [frames EXCEPT ![t] = [rest EXCEPT ![Len(rest)].idx = @ + 1]]
           /\ pc' = [pc EXCEPT ![t] = "readdir"]

\* variant: stops after the first match whether asked to or not
QuitNow_Unasked(c, stats) == stats.numFilterMatches > 0

\* variant: scan() has no quit test
QuitNow_Never(c, stats) == FALSE

\* scan(): "stop in case of for quitAfterFirstMatch"
QuitNow(c, stats) == c.quitAfterFirstMatch /\ stats.numFilterMatches > 0

\* variant: the stream is left open
closedir_Forgotten(eff, path) == eff

\* closedir(dirStream) of the scan() call on path
closedir(eff, path) == [eff EXCEPT !.closed = @ (+) SetToBag({path})]

\* variant: scan() returns after every failed opendir
OpendirTolerated_Always(err) == TRUE

\* scan(): "if( (errnoBackup == EACCES) || (errnoBackup == ENOENT) ) return;"
OpendirTolerated(err) == err \in {"EACCES", "ENOENT"}

\* scan() up to its loop: the quitAfterFirstMatch test and opendir
ScanEnter(t) ==
  /\ Running /\ pc[t] = "scan"
  /\ scanCalls' = scanCalls (+) SetToBag({Top(t).path})
  /\ LET n   == Resolve(Top(t).path)
         err == IF n = 0 THEN "ENOENT" ELSE Errno("opendir", n)
     IN  IF QuitNow(config, statistics)
         THEN ReturnFromScan(t) /\ UNCHANGED << statistics, effects, mainPc >>
         ELSE IF err # "0"
         THEN /\ statistics' = [statistics EXCEPT !.numErrors = @ + 1]
              /\ effects' = Failed([effects |-> effects], "opendir", Top(t).path).effects
              /\ IF OpendirTolerated(err)
                 THEN ReturnFromScan(t) /\ UNCHANGED mainPc
                 ELSE \* kill(0, SIGTERM)
                      mainPc' = "killed" /\ UNCHANGED << frames, pc >>
         ELSE /\ frames' = [frames EXCEPT ![t][Len(frames[t])].dir = n]
              /\ pc' = [pc EXCEPT ![t] = "readdir"]
              /\ effects' = [effects EXCEPT !.opened = @ (+) SetToBag({Top(t).path})]
              /\ UNCHANGED << statistics, mainPc >>
  /\ UNCHANGED << config, pathIdx, retVal, stackVars, emitted, eligible >>
  /\ UNCHANGED runVars

\* variant: one level too deep
doDescendDepth_Inclusive(c, dirDepth) == dirDepth <= c.maxDirDepth

doDescendDepth(c, dirDepth) == dirDepth < c.maxDirDepth

\* variant: the device is not looked at
doDescendMount_Always(c, statErrno, statBuf) == TRUE

\* statErrno: "-1" no stat call, "0" success, else the errno
doDescendMount(c, statErrno, statBuf) ==
  IF c.filterMountID = NO_ID THEN TRUE
  ELSE statErrno = "0" /\ c.filterMountID = statBuf.dev

\* variant: a symbolic link counts as a directory
EntryIsDir_Links(dtype, statErrno, mode) ==
  \/ dtype \in {"DT_DIR", "DT_LNK"}
  \/ dtype = "DT_UNKNOWN" /\ statErrno = "0" /\ mode \in {"S_IFDIR", "S_IFLNK"}

\* variant: d_type alone decides
EntryIsDir_NoStat(dtype, statErrno, mode) == dtype = "DT_DIR"

\* "this entry is a directory"
EntryIsDir(dtype, statErrno, mode) ==
  \/ dtype = "DT_DIR"
  \/ dtype = "DT_UNKNOWN" /\ statErrno = "0" /\ mode = "S_IFDIR"

\* path + "/" + dirEntry->d_name
EntryPath(path, e) == path \o <<"/">> \o FS[e].name

\* one iteration of the loop of scan(): readdir, fstatat, the counters,
\* checkACLs and processDiscoveredEntry ("." and ".." are not among the
\* entries); a "readdir" fault hits the call after the first entry
ReadDir(t) ==
  /\ Running /\ pc[t] = "readdir"
  /\ LET fr   == Top(t)
         ents == FS[fr.dir].entries
     IN  IF fr.idx = 2 /\ Errno("readdir", fr.dir) # "0"
         THEN \* "Failed to read from dir": numErrors++, closedir and return
              /\ ReturnFromScan(t)
              /\ statistics' = [statistics EXCEPT !.numErrors = @ + 1]
              /\ effects' = closedir(Failed([effects |-> effects], "readdir",
                                             fr.path).effects, fr.path)
              /\ UNCHANGED << emitted, eligible, mainPc, retVal >>
         ELSE IF fr.idx > Len(ents)
         THEN \* end of stream: closedir and return
              /\ ReturnFromScan(t)
              /\ effects' = closedir(effects, fr.path)
              /\ UNCHANGED << statistics, emitted, eligible, mainPc, retVal >>
         ELSE LET e         == ents[fr.idx]
                  dtype     == FS[e].dtype
                  doStat    == config.statAll \/ dtype = "DT_UNKNOWN"
                  statErrno == IF doStat THEN Errno("fstatat", e) ELSE "-1"
                  statBuf   == IF statErrno = "0" THEN StatOf(e) ELSE NullStat
                  entryPath == EntryPath(fr.path, e)
                  isDir     == EntryIsDir(dtype, statErrno, FS[e].mode)
                  counted   ==
                    [statistics EXCEPT
                       !.numStatCalls = IF doStat THEN @ + 1 ELSE @,
                       !.numUnknownFound = IF dtype = "DT_UNKNOWN" THEN @ + 1 ELSE @,
                       !.numDirsFound = IF isDir THEN @ + 1 ELSE @,
                       !.numFilesFound = IF isDir THEN @ ELSE @ + 1]
                  \* "Failed to get attributes": a diagnostic and nothing else
                  statted   == IF doStat /\ statErrno # "0"
                               THEN Failed([effects |-> effects], "fstatat", entryPath).effects
                               ELSE effects
                  acls      == checkACLs(config, World(emitted, counted, statted),
                                 entryPath, e, isDir)
                  res       == processDiscoveredEntry(config, acls,
                                 entryPath, dtype, statBuf)
              IN  /\ AfterPipeline(res)
                  /\ IF res.fate # "ok"
                     THEN UNCHANGED << pc, frames, eligible >>
                     ELSE
                     IF /\ isDir
                        /\ doDescendMount(config, statErrno, statBuf)
                        /\ doDescendDepth(config, fr.depth)
                     THEN /\ pc' = [pc EXCEPT ![t] = "getSize"]
                          /\ eligible' = eligible (+) SetToBag({entryPath})
                          /\ UNCHANGED frames
                     ELSE /\ frames' = [frames EXCEPT ![t][Len(frames[t])].idx = @ + 1]
                          /\ UNCHANGED << pc, eligible >>
  /\ UNCHANGED << config, pathIdx, stackVars, scanCalls >>
  /\ UNCHANGED runVars

\* dirDepth + 1 passed as unsigned short
NextDepth(dirDepth) == (dirDepth + 1) % (USHORT_MAX + 1)

\* variant: breadth search whatever the size
GoDeep_Never(c, size) == FALSE

\* variant: depth search only above the threshold
GoDeep_Strict(c, size) == size > c.depthSearchStartThreshold

\* "if(sharedStack.getSize() >= config.depthSearchStartThreshold)"
GoDeep(c, size) == size >= c.depthSearchStartThreshold

\* the lock-free sharedStack.getSize() and the choice of depth or breadth search
GetSize(t) ==
  /\ Running /\ pc[t] = "getSize"
  /\ LET fr == Top(t)
         entryPath == EntryPath(fr.path, FS[fr.dir].entries[fr.idx])
     IN  IF GoDeep(config, stackSize)
         THEN /\ frames' = [frames EXCEPT ![t] = Append(@,
                   [path |-> entryPath, dir |-> 0, depth |-> NextDepth(fr.depth),
                    idx |-> 1])]
              /\ pc' = [pc EXCEPT ![t] = "scan"]
         ELSE /\ pc' = [pc EXCEPT ![t] = "push"]
              /\ UNCHANGED frames
  /\ UNCHANGED << config, mainPc, pathIdx, retVal, stackVars, ioVars, eligible,
                  scanCalls >>
  /\ UNCHANGED runVars

\* breadth search: sharedStack.push(entryPath, dirDepth + 1)
Push(t) ==
  /\ Running /\ pc[t] = "push"
  /\ LET fr == Top(t)
         entryPath == EntryPath(fr.path, FS[fr.dir].entries[fr.idx])
     IN  push(entryPath, NextDepth(fr.depth), [pc EXCEPT ![t] = "readdir"])
  /\ frames' = [frames EXCEPT ![t][Len(frames[t])].idx = @ + 1]
  /\ UNCHANGED << config, mainPc, pathIdx, retVal, ioVars, eligible, scanCalls >>
  /\ UNCHANGED runVars

(***************************************************************************)
(* main().                                                                 *)
(***************************************************************************)
\* "mimic gnu findutils behavior": one trailing slash is removed, but not from "/"
TrimTrailingSlash(path) ==
  IF path # <<"/">> /\ path[Len(path)] = "/"
  THEN SubSeq(path, 1, Len(path) - 1) ELSE path

\* one iteration of "check entry type of user-given paths and add dirs to stack"
\* variant: every failed lstat of a scan path ends the run
SkipScanPath_Never(err) == FALSE

\* "if( (errnoBackup == EACCES) || (errnoBackup == ENOENT) ) continue;"
SkipScanPath(err) == err \in {"EACCES", "ENOENT"}

MainScanPath ==
  /\ mainPc = "seed" /\ pathIdx <= Len(config.scanPaths)
  /\ LET currentPath == config.scanPaths[pathIdx]
         n   == Resolve(currentPath)
         err == IF n = 0 THEN "ENOENT" ELSE Errno("lstat", n)
     IN  IF err # "0"
         THEN /\ retVal' = EXIT_FAILURE
              /\ effects' = Failed([effects |-> effects], "lstat", currentPath).effects
              /\ IF SkipScanPath(err)
                 THEN pathIdx' = pathIdx + 1 /\ UNCHANGED mainPc
                 ELSE \* kill(0, SIGTERM)
                      mainPc' = "killed" /\ UNCHANGED pathIdx
              /\ UNCHANGED << stackVars, pc, statistics, emitted, eligible >>
         ELSE LET res == processDiscoveredEntry(config,
                           World(emitted, statistics, effects),
                           currentPath, "NULL", StatOf(n))
              IN  /\ AfterPipeline(res)
                  /\ IF res.fate = "ok" /\ FS[n].mode = "S_IFDIR"
                        /\ doDescendDepth(config, 0)
                     THEN /\ push(TrimTrailingSlash(currentPath), NextDepth(0), pc)
                          /\ eligible' = eligible (+)
                                           SetToBag({TrimTrailingSlash(currentPath)})
                     ELSE UNCHANGED << stackVars, pc, eligible >>
                  /\ pathIdx' = IF res.fate = "ok" THEN pathIdx + 1 ELSE pathIdx
  /\ UNCHANGED << config, frames, scanCalls >>
  /\ UNCHANGED runVars

\* "with single thread, always do depth search"; start threads
MainStart ==
  /\ mainPc = "seed" /\ pathIdx > Len(config.scanPaths)
  /\ config' = IF config.numThreads = 1
               THEN [config EXCEPT !.depthSearchStartThreshold = 0] ELSE config
  /\ pc' = [t \in DOMAIN pc |-> "popWait"]
  /\ mainPc' = "join"
  /\ UNCHANGED << pathIdx, retVal, stackVars, frames, ioVars, eligible, scanCalls >>
  /\ UNCHANGED runVars

\* "wait for threads to self-terminate", printSummary, return retVal
MainJoin ==
  /\ mainPc = "join"
  /\ \A t \in Threads : pc[t] \in {"done", "returnedFalse"}
  /\ mainPc' = "returned"
  /\ UNCHANGED << config, pathIdx, retVal, stackVars, pc, frames, ioVars, eligible,
                  scanCalls >>
  /\ UNCHANGED runVars

Next ==
  \/ MainScanPath
  \/ MainStart
  \/ MainJoin
  \/ \E t \in Threads : PopWait(t)
  \/ \E t \in Threads : Woken(t)
  \/ \E t \in Threads : SpuriousWakeup(t)
  \/ \E t \in Threads : ScanEnter(t)
  \/ \E t \in Threads : ReadDir(t)
  \/ \E t \in Threads : GetSize(t)
  \/ \E t \in Threads : Push(t)

(***************************************************************************)
(* A second run of the program on the same tree, with the same command     *)
(* line or with one filter tightened.                                      *)
(***************************************************************************)
\* the sequence without its i-th element
RemoveAt(seq, i) == SubSeq(seq, 1, i - 1) \o SubSeq(seq, i + 1, Len(seq))

\* the command lines that differ from a by one tightened filter: a predicate
\* switched on (--type, --name, --path, --size, --uid), a size bound narrowed,
\* or one --name pattern taken away
Tightenings(a) ==
  {[a EXCEPT !.type = ty] : ty \in IF a.type = "0" THEN {"f", "d"} ELSE {}}
  \cup (IF a.names = << >> THEN {[a EXCEPT !.names = << <<"f", "*">> >>]} ELSE {})
  \cup {[a EXCEPT !.names = RemoveAt(a.names, i)] : i \in 1..Len(a.names)}
  \cup (IF a.path = << >> THEN {[a EXCEPT !.path = <<"*", "s", "*">>]} ELSE {})
  \cup (IF <<"size", "LESS">> \notin a.sizeTimeFlags
        THEN {[a EXCEPT !.sizeTimeFlags = @ \cup {<<"size", "LESS">>},
                        !.filterVal["size"].less = 21]}
        ELSE IF a.filterVal["size"].less > 11
        THEN {[a EXCEPT !.filterVal["size"].less = @ - 10]}
        ELSE {})
  \cup (IF a.uid = NO_ID THEN {[a EXCEPT !.uid = 1]} ELSE {})

\* the program is started again after main() has returned
Rerun ==
  /\ run = 1 /\ mainPc = "returned"
  /\ \E a \in {args} \cup Tightenings(args) :
       /\ args' = a
       /\ config' = ParseArguments(a)
       /\ pc' = [t \in 1..a.threads |-> "idle"]
       /\ frames' = [t \in 1..a.threads |-> << >>]
  /\ mainPc' = "seed"
  /\ pathIdx' = 1
  /\ retVal' = EXIT_SUCCESS
  /\ dirPathStack' = << >>
  /\ numWaiters' = 0
  /\ stackSize' = 0
  /\ statistics' = ZeroStatistics
  /\ emitted' = EmptyBag
  /\ effects' = NoEffects
  /\ eligible' = EmptyBag
  /\ scanCalls' = EmptyBag
  /\ run' = 2
  /\ firstArgs' = args
  /\ firstEmitted' = emitted
  /\ UNCHANGED faults

Next2 ==
  \/ Next
  \/ Rerun

(***************************************************************************)
(* Specifications.                                                         *)
(***************************************************************************)
MaxGodeep == 2

Paths1 == << <<"A">> >>

\* "A/" and the mount point "A/m" below it
Paths2 == << <<"A", "/">>, <<"A", "/", "m">> >>

\* a symbolic link as scan path, then the directory that holds it
Paths7 == << <<"A", "/", "m", "/", "l", "1">>, <<"A", "/", "m">> >>

\* a regular file as scan path
Paths3 == << <<"A", "/", "f", "1">>, <<"A", "/", "s">> >>

\* the first scan path, which gives filterMountID, is on the other device
Paths4 == << <<"A", "/", "m">>, <<"A">> >>

\* --size -20c style thresholds
SizeVal(e, l, g) ==
  [NoFilterVal EXCEPT !["size"] = [exact |-> e, less |-> l, greater |-> g]]

NoFaults == {}

FaultsSpec ==
  { NoFaults,
    {<<"opendir", 2, "EACCES">>},
    {<<"fstatat", 6, "EACCES">>},
    {<<"opendir", 6, "EIO">>},
    {<<"lstat", 4, "ENOENT">>},
    {<<"fstatat", 2, "EACCES">>} }

\* the command lines that are run with FaultsSpec
ArgsFaults ==
  {[DefaultArgs EXCEPT !.threads = t, !.xdev = x, !.paths = p] :
     t \in 1..MaxThreads, x \in BOOLEAN, p \in {Paths1, Paths2}}

ArgsSpec ==
  {[DefaultArgs EXCEPT !.threads = t, !.godeep = g, !.quit = q, !.type = ty,
                       !.paths = p] :
     t \in 1..MaxThreads, g \in {0, 1, MaxGodeep}, q \in BOOLEAN, ty \in {"0", "f"},
     p \in {Paths1, Paths3}}
  \cup
  {[DefaultArgs EXCEPT !.threads = t, !.godeep = g, !.maxdepth = md, !.xdev = x,
                       !.paths = p] :
     t \in 1..MaxThreads, g \in {0, 1}, md \in 0..MaxDepthArg, x \in BOOLEAN,
     p \in {Paths1, Paths2}}
  \cup
  {[DefaultArgs EXCEPT !.threads = t, !.xdev = TRUE, !.paths = Paths4, !.json = js] :
     t \in {1, 2}, js \in BOOLEAN}
  \cup
  {[DefaultArgs EXCEPT !.threads = t, !.paths = Paths7] : t \in {1, 2}}
  \cup
  {[DefaultArgs EXCEPT !.threads = t, !.names = nm, !.uid = u, !.paths = p,
                       !.sizeTimeFlags = sf, !.filterVal = SizeVal(0, 20, 0)] :
     t \in {1, 2}, nm \in {<< <<"f", "*">> >>, << <<"?", "1">>, <<"s">> >>},
     u \in {NO_ID, 1}, p \in {Paths1, Paths2}, sf \in {{}, {<<"size", "LESS">>}}}
  \cup
  {[DefaultArgs EXCEPT !.threads = t, !.copyto = ct, !.unlink = ul, !.exec = ex] :
     t \in {1, 2}, ct \in {<< >>, <<"T">>}, ul \in BOOLEAN,
     ex \in {<< >>, << <<"x">>, <<"{", "}">> >>}}
  \cup
  {[DefaultArgs EXCEPT !.threads = t, !.xdev = x, !.noprint = np, !.json = js,
                       !.stat = sa, !.quit = q] :
     t \in {1, 2}, x \in BOOLEAN, np \in BOOLEAN, js \in BOOLEAN,
     sa \in BOOLEAN, q \in BOOLEAN}

Init ==
  /\ \E r \in (ArgsSpec \X {NoFaults}) \cup (ArgsFaults \X FaultsSpec) : Start(r[1], r[2])
  /\ run = 1
  /\ firstArgs = DefaultArgs
  /\ firstEmitted = EmptyBag

Spec == Init /\ [][Next]_vars

ArgsTwo ==
  {[DefaultArgs EXCEPT !.threads = t, !.quit = q, !.type = ty, !.names = nm] :
     t \in 1..MaxThreads, q \in BOOLEAN, ty \in {"0", "f"},
     nm \in {<< >>, << <<"f", "*">> >>, << <<"f", "*">>, <<"h", "*">> >>}}
  \cup
  {[DefaultArgs EXCEPT !.threads = t, !.json = js, !.sizeTimeFlags = {<<"size", "LESS">>},
                       !.filterVal = SizeVal(0, 21, 0)] :
     t \in 1..MaxThreads, js \in BOOLEAN}

FaultsTwo == { NoFaults, {<<"fstatat", 6, "EACCES">>} }

Init2 ==
  /\ \E a \in ArgsTwo, f \in FaultsTwo : Start(a, f)
  /\ run = 1
  /\ firstArgs = DefaultArgs
  /\ firstEmitted = EmptyBag

\* two runs, one after the other
TwoRunSpec == Init2 /\ [][Next2]_vars

\* the scheduler runs every thread that can run; a return of condition.wait
\* without notification is not something a thread can count on
ThreadStep(t) ==
  /\ t \in Threads
  /\ \/ PopWait(t)
     \/ Woken(t)
     \/ ScanEnter(t)
     \/ ReadDir(t)
     \/ GetSize(t)
     \/ Push(t)

Fairness ==
  /\ WF_vars(MainScanPath \/ MainStart \/ MainJoin)
  /\ \A t \in 1..(MaxThreads + 1) : WF_vars(ThreadStep(t))

ArgsLive ==
  {[DefaultArgs EXCEPT !.threads = t, !.godeep = g, !.quit = (ty = "f"), !.type = ty] :
     t \in 1..MaxThreads, g \in {0, MaxGodeep}, ty \in {"0", "f"}}

FaultsLive ==
  { NoFaults, {<<"opendir", 2, "EACCES">>}, {<<"opendir", 6, "EIO">>} }

LiveInit ==
  /\ \E a \in ArgsLive, f \in FaultsLive : Start(a, f)
  /\ run = 1
  /\ firstArgs = DefaultArgs
  /\ firstEmitted = EmptyBag

FairSpec == LiveInit /\ [][Next]_vars /\ Fairness

\* runs for the condition variable: two threads on the tree A, and three
\* threads on the subtree A/s
ArgsWake ==
  {[DefaultArgs EXCEPT !.threads = 2, !.godeep = g] : g \in {1, 2}}
  \cup {[DefaultArgs EXCEPT !.threads = 3, !.godeep = 1, !.paths = << <<"A", "/", "s">> >>]}

\* failing opendir calls: two that scan() gets over, one that it does not
FaultsWake ==
  { NoFaults, {<<"opendir", 6, "EACCES">>}, {<<"opendir", 2, "ENOENT">>},
    {<<"opendir", 4, "EIO">>} }

WakeInit ==
  /\ \E a \in ArgsWake, f \in FaultsWake : Start(a, f)
  /\ run = 1
  /\ firstArgs = DefaultArgs
  /\ firstEmitted = EmptyBag

WakeSpec == WakeInit /\ [][Next]_vars /\ Fairness

\* --exec x {} ;   --exec {} -a{}b{} ;   --exec x{} - ;
Exec1 == << <<"x">>, <<"{", "}">> >>

Exec2 == << <<"{", "}">>, <<"-", "a", "{", "}", "b", "{", "}">> >>

Exec3 == << <<"x", "{", "}">>, <<"-">> >>

\* the empty directory as the only scan path
Paths5 == << <<"E">> >>

\* command lines with filters in front of the actions
ArgsFilters ==
  {[DefaultArgs EXCEPT !.threads = 1, !.type = ty, !.names = nm, !.path = pf,
                       !.sizeTimeFlags = sf, !.filterVal = SizeVal(0, 20, 0),
                       !.uid = u, !.copyto = <<"T">>, !.unlink = TRUE, !.exec = Exec1] :
     ty \in {"0", "f"}, nm \in {<< >>, << <<"?", "1">> >>},
     pf \in {<< >>, <<"A", "/", "s", "*">>}, sf \in {{}, {<<"size", "LESS">>}},
     u \in {NO_ID, 0}}

\* command lines with every choice of actions
ArgsActions ==
  {[DefaultArgs EXCEPT !.threads = 1, !.copyto = ct, !.unlink = ul, !.exec = ex,
                       !.noprint = np, !.paths = p] :
     ct \in {<< >>, <<"T">>}, ul \in BOOLEAN, ex \in {<< >>, Exec1, Exec2, Exec3},
     np \in BOOLEAN, p \in {Paths1, Paths3}}
  \cup
  {[DefaultArgs EXCEPT !.threads = t, !.godeep = g] : t \in {1, 2}, g \in {0, 1}}
  \cup
  {[DefaultArgs EXCEPT !.threads = t, !.paths = Paths5] : t \in {1, 2, 4}}

\* command lines that are run in an environment with failing calls
ArgsErrors ==
  {[DefaultArgs EXCEPT !.threads = 1, !.copyto = <<"T">>, !.unlink = ul,
                       !.nocopyerr = ic, !.notimeupd = nt, !.nodelerr = iu,
                       !.aclcheck = ac] :
     ul \in BOOLEAN, ic \in BOOLEAN, nt \in BOOLEAN, iu \in BOOLEAN, ac \in BOOLEAN}
  \cup
  {[DefaultArgs EXCEPT !.threads = 1, !.aclcheck = TRUE, !.stat = sa, !.exec = ex] :
     sa \in BOOLEAN, ex \in {<< >>, Exec1}}

FaultsErrors ==
  { NoFaults,
    {<<"opendir", 2, "EACCES">>},
    {<<"readdir", 1, "EIO">>},
    {<<"readdir", 6, "EIO">>},
    {<<"fstatat", 3, "EACCES">>},
    {<<"fstatat", 2, "EACCES">>},
    {<<"fstatat", 3, "EACCES">>, <<"nullread", 0, "S_IFREG">>},
    {<<"fstatat", 2, "EACCES">>, <<"nullread", 0, "S_IFREG">>},
    {<<"fstatat", 3, "EACCES">>, <<"nullread", 0, "S_IFDIR">>},
    {<<"lgetxattr", 3, "EPERM">>},
    {<<"lgetxattr", 5, "ENOTSUP">>},
    {<<"lgetxattr_default", 2, "EPERM">>},
    {<<"mkdir", 2, "EACCES">>},
    {<<"mkdir", 2, "EEXIST">>},
    {<<"malloc", 8, "ENOMEM">>},
    {<<"readlink", 9, "EIO">>},
    {<<"symlink", 9, "EEXIST">>},
    {<<"symlink", 9, "EACCES">>},
    {<<"open", 3, "EACCES">>},
    {<<"open_dest", 3, "EACCES">>},
    {<<"read", 3, "EIO">>},
    {<<"read", 8, "EIO">>},
    {<<"write", 8, "ENOSPC">>},
    {<<"shortwrite", 8, "1">>},
    {<<"utimens", 2, "EPERM">>},
    {<<"utimens", 3, "EPERM">>},
    {<<"utimens", 9, "EPERM">>},
    {<<"unlink", 3, "EACCES">>},
    {<<"system", 3, "SIGNAL">>},
    {<<"read", 8, "EIO">>, <<"open", 3, "EACCES">>, <<"utimens", 5, "EPERM">>} }

\* a path that does not exist, then A
Paths6 == << <<"N">>, <<"A">> >>

\* command lines with scan paths whose lstat fails, and with failing entries
ArgsExit ==
  {[DefaultArgs EXCEPT !.threads = 1, !.paths = p, !.copyto = ct] :
     p \in {Paths1, Paths2, Paths4, Paths6}, ct \in {<< >>, <<"T">>}}

FaultsExit ==
  { NoFaults,
    {<<"lstat", 4, "EACCES">>},
    {<<"lstat", 1, "ENOENT">>},
    {<<"lstat", 4, "EIO">>},
    {<<"opendir", 2, "EACCES">>, <<"fstatat", 6, "EACCES">>},
    {<<"lstat", 4, "ENOENT">>, <<"readdir", 1, "EIO">>},
    {<<"open", 3, "EACCES">>} }

\* command lines with a path filter ("A*" matches every path below A, "A/s*"
\* the directory A/s and what is below it) or a size filter, with and without
\* a stat call for every entry, run where the stat of an entry fails
ArgsTyping ==
  {[DefaultArgs EXCEPT !.threads = 1, !.path = pf, !.sizeTimeFlags = sf,
                       !.filterVal = SizeVal(0, 0, 5), !.stat = sa, !.paths = p] :
     pf \in {<< >>, <<"A", "*">>, <<"A", "/", "s", "*">>},
     sf \in {{}, {<<"size", "GREATER">>}}, sa \in BOOLEAN,
     p \in {Paths1, Paths3}}

FaultsTyping ==
  { NoFaults,
    {<<"fstatat", 3, "EACCES">>},
    {<<"fstatat", 5, "EACCES">>, <<"fstatat", 4, "EIO">>},
    {<<"fstatat", 6, "EACCES">>, <<"fstatat", 8, "EIO">>} }

\* thresholds for every field: as given on the command line for the size
CompareVal ==
  [f \in {"size", "atime", "ctime", "mtime"} |->
     IF f = "size" THEN [exact |-> 10, less |-> 21, greater |-> 15]
     ELSE IF f = "mtime" THEN [exact |-> 5, less |-> 7, greater |-> 3]
     ELSE [exact |-> 5, less |-> 6, greater |-> 5]]

\* size and time filters on the files A/f1 (10 bytes), A/s/f2 (20) and
\* A/s/d/h1 (10): --xdev keeps the scan out of A/m; --size +15c and --size +15
ArgsCompare ==
  {[DefaultArgs EXCEPT !.threads = 1, !.type = ty, !.xdev = TRUE,
                       !.sizeTimeFlags = sf, !.filterVal = CompareVal,
                       !.sizeUnit = su] :
     ty \in {"0", "f"}, su \in {"c", ""},
     sf \in { {<<"size", "GREATER">>}, {<<"size", "EXACT">>},
              {<<"size", "LESS">>, <<"size", "GREATER">>},
              {<<"mtime", "LESS">>}, {<<"mtime", "GREATER">>, <<"size", "LESS">>},
              {<<"mtime", "EXACT">>, <<"atime", "EXACT">>},
              {<<"atime", "LESS">>, <<"ctime", "EXACT">>},
              {<<"ctime", "GREATER">>}, {<<"atime", "GREATER">>},
              {<<"ctime", "LESS">>, <<"mtime", "GREATER">>} }}

ActionInit ==
  /\ \E r \in ((ArgsFilters \cup ArgsActions \cup ArgsCompare) \X {NoFaults})
                \cup (ArgsErrors \X FaultsErrors)
                \cup (ArgsExit \X FaultsExit)
                \cup (ArgsTyping \X FaultsTyping) : Start(r[1], r[2])
  /\ run = 1
  /\ firstArgs = DefaultArgs
  /\ firstEmitted = EmptyBag

\* the runs in which the actions on the entries and their failures are seen
ActionSpec == ActionInit /\ [][Next]_vars

(***************************************************************************)
(* Properties.                                                             *)
(***************************************************************************)
SomeDone == \E t \in Threads : pc[t] = "done"

AllDone == \A t \in Threads : pc[t] = "done"

\* an I/O call of this environment fails with an errno that scan() or main()
\* answer with kill(0, SIGTERM)
FatalFault ==
  \E f \in faults : f[1] \in {"opendir", "lstat"} /\ f[3] \notin {"EACCES", "ENOENT"}

\* C1: on a finite static tree, under fair scheduling, every scan thread leaves
\* its loop through ScanDoneException and main() returns from its joins (or,
\* on a fatal errno, the process is gone by SIGTERM)
C1_Termination ==
  <>(IF FatalFault THEN mainPc \in {"killed", "returned"}
     ELSE mainPc = "returned" /\ AllDone)

C1_Witness ==
  /\ mainPc = "returned" /\ AllDone
  /\ config.numThreads = MaxThreads
  /\ BagCardinality(scanCalls) >= 4

\* C2: whenever popWait has thrown ScanDoneException in some thread, the stack
\* is empty, every thread is in popWait (blocked, woken, or left it by the
\* exception), none is in scan(), and every directory found eligible for
\* descent has been scanned
C2_Quiescence ==
  SomeDone =>
    /\ dirPathStack = << >>
    /\ numWaiters = config.numThreads
    /\ \A t \in Threads : pc[t] \in {"waiting", "woken", "done"} /\ frames[t] = << >>
    /\ scanCalls = eligible

C2_Witness ==
  /\ SomeDone /\ ~AllDone
  /\ config.numThreads >= 2
  /\ BagCardinality(eligible) >= 4

\* C3: once a thread has observed numWaiters == numThreads on an empty stack,
\* no step pushes onto the shared stack
C3_NoPushAfterDone ==
  [][SomeDone => Len(dirPathStack') <= Len(dirPathStack)]_vars

C3_Witness ==
  /\ SomeDone
  /\ \E t \in Threads : pc[t] = "woken"
  /\ BagCardinality(eligible) > Len(config.scanPaths)

\* C4: after the first ScanDoneException numWaiters stays at numThreads, no
\* thread is left blocked in condition.wait, and every thread ends with the
\* exception
C4_AllObserveDone ==
  /\ [](SomeDone => numWaiters = config.numThreads
                    /\ \A t \in Threads : pc[t] \in {"woken", "done"})
  /\ (SomeDone ~> AllDone)

C4_Witness ==
  /\ AllDone
  /\ config.numThreads = MaxThreads
  /\ numWaiters = config.numThreads

(***************************************************************************)
(* What the tree and the configuration say, without running a scan.        *)
(***************************************************************************)
\* node n is r or lies below r
RECURSIVE IsBelow(_, _)
IsBelow(n, r) ==
  IF n = r THEN TRUE
  ELSE IF FS[n].parent = 0 THEN FALSE
  ELSE IsBelow(FS[n].parent, r)

\* for every node, the nodes it is or lies below, and its level
AboveTable == [n \in Nodes |-> {r \in Nodes : IsBelow(n, r)}]

LevelTable == [n \in Nodes |-> LevelOf(n)]

\* the node of scan path i, 0 if there is none
RootOf(i) == Resolve(config.scanPaths[i])

\* the scan paths that main() could lstat
ScanRoots ==
  {i \in 1..Len(config.scanPaths) : RootOf(i) # 0 /\ Errno("lstat", RootOf(i)) = "0"}

\* every directory strictly between r and n is on the device filterMountID
RECURSIVE MountChain(_, _)
MountChain(n, r) ==
  \/ FS[n].parent = r
  \/ /\ config.filterMountID = NO_ID \/ FS[FS[n].parent].dev = config.filterMountID
     /\ MountChain(FS[n].parent, r)

\* the sub-bag of the elements of B that satisfy P
BagWhere(B, P(_)) == [x \in {y \in BagToSet(B) : P(y)} |-> B[x]]

\* for every node, how many records of the bag B carry a path of that node
TimesIn(B) ==
  LET pairs == {<<Resolve(r.path), r, B[r]>> : r \in BagToSet(B)}
  IN  [n \in Nodes |-> BagCardinality([pr \in {q \in pairs : q[1] = n} |-> pr[3]])]

\* how often each node went into processDiscoveredEntry / onto stdout
TimesProcessed == TimesIn(effects.processed)

TimesEmitted == TimesIn(emitted)

\* for every node, the scan paths that have it at most maxDirDepth levels
\* below them
WithinDepth ==
  LET roots == ScanRoots
  IN  [n \in Nodes |->
        {i \in roots : /\ RootOf(i) \in AboveTable[n]
                       /\ LevelTable[n] - LevelTable[RootOf(i)] <= config.maxDirDepth}]

\* C6: an entry is passed to the pipeline, and emitted, at most once for each
\* scan path that has it at most maxDirDepth levels below it; so never if it
\* lies deeper than maxDirDepth below every scan path
C6_MaxDepth ==
  LET processed == TimesProcessed
      printed   == TimesEmitted
      within    == WithinDepth
  IN  \A n \in Nodes : /\ processed[n] <= Cardinality(within[n])
                       /\ printed[n] <= Cardinality(within[n])

C6_Witness ==
  /\ mainPc = "returned"
  /\ config.maxDirDepth = 1 /\ config.numThreads = MaxThreads
  /\ \E n \in Nodes : TimesEmitted[n] = 1 /\ WithinDepth[n] = {1} /\ LevelOf(n) = 1
  /\ \E n \in Nodes : TimesProcessed[n] = 0 /\ WithinDepth[n] = {}

\* for every node, the scan paths from which a scan under --xdev comes to it:
\* it is the scan path, or every directory between the scan path and it is on
\* filterMountID
WithinMount ==
  LET roots == ScanRoots
  IN  [n \in Nodes |->
        {i \in roots : /\ RootOf(i) \in AboveTable[n]
                       /\ n = RootOf(i) \/ MountChain(n, RootOf(i))}]

\* C7 as stated: under --xdev no emitted entry is on another device
C7_Original ==
  config.filterMountID # NO_ID =>
    \A r \in BagToSet(emitted) : FS[Resolve(r.path)].dev = config.filterMountID

\* C7: under --xdev no directory on another device is descended: an entry is
\* passed to the pipeline, and emitted, at most once for each scan path from
\* which only directories on filterMountID lead to it.  (The scan paths and
\* the mount points found on the way are themselves emitted.)
C7_Mount ==
  config.filterMountID # NO_ID =>
    LET processed == TimesProcessed
        printed   == TimesEmitted
        within    == WithinMount
    IN  \A n \in Nodes : /\ processed[n] <= Cardinality(within[n])
                         /\ printed[n] <= Cardinality(within[n])

C7_Witness ==
  /\ mainPc = "returned" /\ config.filterMountID # NO_ID
  /\ config.numThreads = MaxThreads
  /\ \E n \in Nodes : /\ FS[n].mode = "S_IFDIR" /\ FS[n].dev # config.filterMountID
                      /\ TimesEmitted[n] = 1
                      /\ \A e \in Nodes : FS[e].parent = n => TimesProcessed[e] = 0

\* the path from r down to n, as scan() builds it
RECURSIVE RelPath(_, _)
RelPath(n, r) ==
  IF n = r THEN << >> ELSE RelPath(FS[n].parent, r) \o <<"/">> \o FS[n].name

\* whether n, found from scan path i, passes all filters
PassesVia(n, i) ==
  IF n = RootOf(i)
  THEN PassesFilters(config, config.scanPaths[i], "NULL", StatOf(n))
  ELSE PassesFilters(config,
         TrimTrailingSlash(config.scanPaths[i]) \o RelPath(n, RootOf(i)),
         FS[n].dtype,
         IF config.statAll \/ FS[n].dtype = "DT_UNKNOWN" THEN StatOf(n) ELSE NullStat)

RegularFiles == {n \in Nodes : FS[n].mode = "S_IFREG"}

\* for every node, the scan paths from which it is reachable through
\* directories that satisfy the mount and the max-depth predicate
ReachableFrom ==
  LET depth == WithinDepth
      mount == WithinMount
  IN  [n \in Nodes |-> depth[n] \cap mount[n]]

EmittedPaths(out) == {r.path : r \in BagToSet(out)}

\* C8 as stated: a second run with the same command line emits the same
\* multiset of records
C8_Original ==
  run = 2 /\ mainPc = "returned" /\ args = firstArgs => emitted = firstEmitted

\* C8: a second run with the same command line, without --quit or with one
\* thread, emits the same multiset of records
C8_Determinism ==
  /\ run = 2 /\ mainPc = "returned" /\ args = firstArgs
  /\ ~config.quitAfterFirstMatch \/ config.numThreads = 1
  => emitted = firstEmitted

C8_Witness ==
  /\ run = 2 /\ mainPc = "returned" /\ args = firstArgs
  /\ ~config.quitAfterFirstMatch /\ config.numThreads = MaxThreads
  /\ BagCardinality(emitted) >= 4

\* C9 as stated: a run with one filter tightened emits a subset of the paths
C9_Original ==
  run = 2 /\ mainPc = "returned" /\ args \in Tightenings(firstArgs) =>
    EmittedPaths(emitted) \subseteq EmittedPaths(firstEmitted)

\* C9: without --quit, a run with one filter tightened emits a subset of the
\* paths, provided that taking away a --name pattern leaves at least one
C9_Monotone ==
  /\ run = 2 /\ mainPc = "returned" /\ args \in Tightenings(firstArgs)
  /\ ~config.quitAfterFirstMatch
  /\ firstArgs.names # << >> => args.names # << >>
  => EmittedPaths(emitted) \subseteq EmittedPaths(firstEmitted)

C9_Witness ==
  /\ run = 2 /\ mainPc = "returned" /\ args \in Tightenings(firstArgs)
  /\ ~config.quitAfterFirstMatch
  /\ Len(args.names) = 1 /\ Len(firstArgs.names) = 2
  /\ emitted # EmptyBag
  /\ EmittedPaths(emitted) # EmittedPaths(firstEmitted)

\* the entries that went into the pipeline and passed all filters
PassedFilters ==
  LET Passes(r) == PassesFilters(config, r.path, r.dtype, r.statBuf)
  IN  BagWhere(effects.processed, Passes)

\* C10 as stated: in plain mode, at normal termination, as many records as
\* filterMatches
C10_Original ==
  mainPc = "returned" /\ ~config.printJSON =>
    BagCardinality(emitted) = statistics.numFilterMatches

\* C10: in plain mode, at normal termination, filterMatches is the number of
\* entries that passed all filters; unless printing is disabled, that is also
\* the number of records emitted, and with printing disabled none is emitted
C10_PlainCount ==
  mainPc = "returned" /\ ~config.printJSON =>
    /\ statistics.numFilterMatches = BagCardinality(PassedFilters)
    /\ BagCardinality(emitted) =
         IF config.printEntriesDisabled THEN 0 ELSE statistics.numFilterMatches

C10_Witness ==
  /\ mainPc = "returned" /\ ~config.printJSON /\ ~config.printEntriesDisabled
  /\ statistics.numFilterMatches >= 2
  /\ BagCardinality(PassedFilters) < BagCardinality(effects.processed)

\* sanity
StackSizeOK == stackSize = Len(dirPathStack)

WaitersOK ==
  mainPc = "join" =>
    numWaiters = Cardinality({t \in Threads : pc[t] \in {"waiting", "woken", "done"}})


(***************************************************************************)
(* The order of the pipeline.                                              *)
(***************************************************************************)
\* the calls of processDiscoveredEntry in the order the claim gives them
StageOrder ==
  <<"type", "name", "path", "sizetime", "uidgid", "print", "exec", "copy", "unlink",
    "count">>

\* the first filter, in that order, that rejects the entry of record r; 0 if none
FirstReject(r) ==
  LET rejects ==
        << ~filterPrintEntryByType(config, r.path, r.dtype, r.statBuf),
           ~filterPrintEntryByName(config, r.path, r.dtype, r.statBuf),
           ~filterPrintEntryByPath(config, r.path, r.dtype, r.statBuf),
           ~filterPrintEntryBySizeOrTime(config, r.path, r.dtype, r.statBuf),
           ~filterPrintEntryByUIDAndGID(config, r.path, r.dtype, r.statBuf) >>
  IN  IF \A i \in 1..5 : ~rejects[i] THEN 0
      ELSE CHOOSE i \in 1..5 : rejects[i] /\ \A j \in 1..(i - 1) : ~rejects[j]

\* the process has ended inside a pipeline call
EndedInPipeline == mainPc \in {"exited", "killed", "crashed"}

\* the paths an action was applied to
ActedOn ==
  {e.path : e \in BagToSet(emitted)} \cup {x.path : x \in BagToSet(effects.execd)}
    \cup {cp.src : cp \in BagToSet(effects.copied)} \cup BagToSet(effects.unlinked)

\* C11: for every entry the filters are called in the order type, name, path,
\* size/time, uid/gid and the first one that rejects the entry is the last call
\* made for it, so that no action is applied to a rejected entry; for an
\* accepted entry print, exec, copy and unlink are called in this order and
\* numFilterMatches is incremented after them (unless the process has ended
\* inside one of them)
C11_PipelineOrder ==
  /\ \A r \in BagToSet(effects.processed) :
       LET k == FirstReject(r)
       IN  IF k > 0 THEN r.trace = SubSeq(StageOrder, 1, k)
           ELSE \/ r.trace = StageOrder
                \/ /\ EndedInPipeline
                   /\ \E j \in 7..9 : r.trace = SubSeq(StageOrder, 1, j)
  /\ \A p \in ActedOn :
       \E r \in BagToSet(effects.processed) : r.path = p /\ FirstReject(r) = 0
  /\ statistics.numFilterMatches =
       CopiesIn(TRUE, BagOfAll(LAMBDA r : r.trace = StageOrder, effects.processed))

\* one run has an entry rejected by the first filter, one rejected by the
\* size filter after three filters let it pass, and an accepted regular file
\* that was printed, given to the command, copied, unlinked and counted
C11_Witness ==
  /\ \E r \in BagToSet(effects.processed) : r.trace = <<"type">>
  /\ \E r \in BagToSet(effects.processed) : r.trace = SubSeq(StageOrder, 1, 4)
  /\ \E r \in BagToSet(effects.processed) :
       /\ r.trace = StageOrder
       /\ r.path \in BagToSet(effects.unlinked)
       /\ \E cp \in BagToSet(effects.copied) : cp.src = r.path /\ cp.kind = "file"
       /\ \E x \in BagToSet(effects.execd) : x.path = r.path
       /\ \E e \in BagToSet(emitted) : e.path = r.path

(***************************************************************************)
(* Failing calls.                                                          *)
(***************************************************************************)
\* the entries whose fstatat failed
StatFailed == {f.path : f \in {g \in BagToSet(effects.failures) : g.call = "fstatat"}}

\* C12: a failing stat of an entry never aborts the traversal, whatever the
\* configuration, copyDestDir and unlinkFiles included: the process does not
\* end by a signal after a stat has failed, and an entry whose stat failed
\* goes through the whole pipeline unless a filter rejects it
C12_Original ==
  /\ StatFailed # {} => mainPc # "crashed"
  /\ \A r \in BagToSet(effects.processed) :
       (r.path \in StatFailed /\ Len(r.trace) < Len(StageOrder)) => FirstReject(r) > 0

\* the number of failed calls among the given calls
NumFailures(calls) ==
  CopiesIn(TRUE, BagOfAll(LAMBDA f : f.call \in calls, effects.failures))

\* the calls on a directory or on an entry of it that scan() and checkACLs make
ScanCalls == {"opendir", "readdir", "fstatat", "lgetxattr", "lgetxattr_default"}

\* the calls of copyEntry that can fail
CopyCalls ==
  {"mkdir", "readlink", "symlink", "open", "open_dest", "read", "write", "shortwrite",
   "utimens"}

\* C13: every failed directory open, directory read, stat of an entry or ACL
\* query (errno other than ENODATA and ENOTSUP) adds exactly one to numErrors:
\* numErrors is the number of these failures plus that of the failed calls of
\* the copy and unlink actions
C13_Original ==
  statistics.numErrors = NumFailures(ScanCalls) + NumFailures(CopyCalls \cup {"unlink"})

\* the entries for which one of the given calls failed
FailedPaths(calls) ==
  {f.path : f \in {g \in BagToSet(effects.failures) : g.call \in calls}}

\* the entry went through copyEntry and on to unlinkEntry
WentOn(p) ==
  \A r \in BagToSet(effects.processed) : r.path = p => Len(r.trace) >= 9

IsDirectory(p) == Resolve(p) # 0 /\ FS[Resolve(p)].mode = "S_IFDIR"

\* C15: with unlinkFiles set, unlink is called on every accepted entry that
\* is not a directory (unless the process has exited or was killed inside the
\* exec or copy action of the entry) and never on a directory, scan paths
\* included
C15_Original ==
  /\ \A p \in BagToSet(effects.unlinked) : ~IsDirectory(p)
  /\ config.unlinkFiles =>
       \A r \in BagToSet(effects.processed) :
         (FirstReject(r) = 0 /\ ~IsDirectory(r.path)) =>
            \/ r.path \in BagToSet(effects.unlinked)
            \/ mainPc \in {"exited", "killed"}

(***************************************************************************)
(* The counters of found entries.                                          *)
(***************************************************************************)
\* a complete run on one scan path that is a directory: no --quit, no depth
\* or mount limit, no failed call
WholeTreeRun ==
  /\ mainPc = "returned"
  /\ Len(config.scanPaths) = 1 /\ RootOf(1) # 0 /\ FS[RootOf(1)].mode = "S_IFDIR"
  /\ ~config.quitAfterFirstMatch
  /\ config.maxDirDepth = USHORT_MAX /\ config.filterMountID = NO_ID
  /\ effects.failures = EmptyBag

\* the directories of the tree of the scan path, the scan path itself included
TreeDirs == {n \in Nodes : RootOf(1) \in AboveTable[n] /\ FS[n].mode = "S_IFDIR"}

\* the other entries of that tree
TreeFiles == {n \in Nodes : RootOf(1) \in AboveTable[n] /\ FS[n].mode # "S_IFDIR"}

\* C16 as it was stated: numDirsFound is the number of directories of the
\* traversed tree counting the scan path, so 1 for an empty directory
C16_Original ==
  WholeTreeRun =>
    /\ statistics.numDirsFound = Cardinality(TreeDirs)
    /\ statistics.numFilesFound = Cardinality(TreeFiles)

\* C16: numDirsFound is the number of directories found below the scan path,
\* the scan path itself is not counted: 0 for an empty directory, with
\* numFilesFound = 0
C16_DirsFound ==
  WholeTreeRun =>
    /\ statistics.numDirsFound = Cardinality(TreeDirs \ {RootOf(1)})
    /\ statistics.numFilesFound = Cardinality(TreeFiles)

\* the run of four threads on the empty directory has ended
C16_Witness ==
  /\ WholeTreeRun
  /\ config.numThreads = 4 /\ config.scanPaths = Paths5
  /\ statistics.numDirsFound = 0 /\ statistics.numFilesFound = 0


(***************************************************************************)
(* The command of --exec.                                                  *)
(***************************************************************************)
\* element arg of the command line with the path in the place of every "{}":
\* position i of arg gives the path if a placeholder starts there, nothing if
\* it is the "}" of one, and its character otherwise
RECURSIVE SubstFrom(_, _, _)
SubstFrom(arg, path, i) ==
  IF i > Len(arg) THEN << >>
  ELSE (IF i < Len(arg) /\ arg[i] = "{" /\ arg[i + 1] = "}" THEN path
        ELSE IF i > 1 /\ arg[i - 1] = "{" /\ arg[i] = "}" THEN << >>
        ELSE << arg[i] >>)
       \o SubstFrom(arg, path, i + 1)

\* the elements i.. of argv, each with the path substituted, in single quotes
\* and followed by a blank
RECURSIVE QuotedFrom(_, _, _)
QuotedFrom(argv, path, i) ==
  IF i > Len(argv) THEN << >>
  ELSE <<"'">> \o SubstFrom(argv[i], path, 1) \o <<"'", " ">> \o QuotedFrom(argv, path, i + 1)

\* the command is run for every entry that went through the exec action
ExecdAll ==
  config.execCmdLine # << >> =>
    \A r \in BagToSet(effects.processed) :
      Len(r.trace) >= 7 => \E x \in BagToSet(effects.execd) : x.path = r.path

\* C17 as it was stated: in the command run for an entry every "{}" of every
\* element of the exec argv, the command element included, is the entry path
C17_Original ==
  /\ ExecdAll
  /\ \A x \in BagToSet(effects.execd) :
       x.commandStr = QuotedFrom(config.execCmdLine, x.path, 1)

\* C17: in the command run for an accepted entry every "{}" of every argument
\* after the command element is the entry path; the command element is taken
\* as it is given, a "{}" in it stays
C17_Placeholder ==
  /\ ExecdAll
  /\ \A x \in BagToSet(effects.execd) :
       x.commandStr = <<"'">> \o config.execCmdLine[1] \o <<"'", " ">>
                        \o QuotedFrom(config.execCmdLine, x.path, 2)

\* the command line {} -a{}b{} was run for A/f1
C17_Witness ==
  /\ config.execCmdLine = Exec2
  /\ \E x \in BagToSet(effects.execd) :
       /\ x.path = <<"A", "/", "f", "1">>
       /\ x.commandStr = <<"'", "{", "}", "'", " ", "'", "-", "a", "A", "/", "f", "1", "b",
                           "A", "/", "f", "1", "'", " ">>

(***************************************************************************)
(* The exit code.                                                          *)
(***************************************************************************)
\* lstat of scan path i fails with an errno that main() passes over
LstatFails(i) ==
  \/ RootOf(i) = 0
  \/ Errno("lstat", RootOf(i)) \in {"EACCES", "ENOENT"}

\* C18: a scan path whose lstat fails with EACCES or ENOENT does not end the
\* run: the scan paths after it are processed and main returns a failure;
\* when no lstat of a scan path fails main returns 0, whatever the number of
\* errors counted for entries
C18_ExitCode ==
  /\ (mainPc = "killed" /\ \A f \in faults : f[1] # "system") => FatalFault
  /\ mainPc \in {"join", "returned"} =>
       /\ \A i \in 1..Len(config.scanPaths) :
            ~LstatFails(i) =>
              \E r \in BagToSet(effects.processed) :
                r.path = config.scanPaths[i] /\ r.dtype = "NULL"
       /\ (\E i \in 1..Len(config.scanPaths) : LstatFails(i)) => retVal # 0
       /\ (\A i \in 1..Len(config.scanPaths) : ~LstatFails(i)) => retVal = 0

\* lstat of the first scan path has failed, the second one was scanned, and
\* main has returned a failure
C18_Witness ==
  /\ mainPc = "returned" /\ retVal # 0
  /\ Len(config.scanPaths) = 2 /\ LstatFails(1) /\ ~LstatFails(2)
  /\ \E r \in BagToSet(effects.processed) : r.path = config.scanPaths[2]
  /\ scanCalls # EmptyBag

\* a run without a failed scan path has returned 0 with errors counted
C18_WitnessErrors ==
  /\ mainPc = "returned" /\ retVal = 0
  /\ statistics.numErrors > 0

(***************************************************************************)
(* --quit.                                                                 *)
(***************************************************************************)
\* C19: with quitAfterFirstMatch and a single scan thread no more than one
\* match is printed; more than one match is printed only with several threads
C19_Original ==
  (config.quitAfterFirstMatch /\ config.numThreads = 1) => BagCardinality(emitted) <= 1

(***************************************************************************)
(* numBytesCopied.                                                         *)
(***************************************************************************)
\* the sum of bytes[x] * (copies of x in the bag B) over the elements x of S
RECURSIVE SumOver(_, _, _)
SumOver(S, B, bytes) ==
  IF S = {} THEN 0
  ELSE LET x == CHOOSE y \in S : TRUE
       IN  bytes[x] * CopiesIn(x, B) + SumOver(S \ {x}, B, bytes)

\* st_size of the entry under path p
SizeOf(p) == IF Resolve(p) = 0 THEN 0 ELSE FS[Resolve(p)].size

\* the copies of regular files that went through to the end
FilesCopied == {cp \in BagToSet(effects.copied) : cp.kind = "file"}

\* the read/write loops of regular files that ended by an error
FilesCutShort ==
  {f \in BagToSet(effects.failures) :
     f.call \in {"read", "write", "shortwrite"} /\ ~IsDirectory(f.path)}

\* the bytes of the chunks in front of the last chunk of the file under p
BytesBeforeLastChunk(p) == (NumChunks(SizeOf(p)) - 1) * bufSize

\* the bytes of the files copied to the end
BytesOfFilesCopied ==
  SumOver(FilesCopied, effects.copied, [cp \in FilesCopied |-> SizeOf(cp.src)])

\* C20 as it was stated: numBytesCopied is the sum of the sizes of the
\* regular files whose copy succeeded, and nothing else, when main returns
C20_Original ==
  mainPc = "returned" => statistics.numBytesCopied = BytesOfFilesCopied

\* C20: numBytesCopied is the sum of the sizes of the regular files whose copy
\* succeeded plus, for each regular file whose copy failed part-way, the bytes
\* of the chunks written before the failing read or write
C20_BytesCopied ==
  statistics.numBytesCopied =
    BytesOfFilesCopied
      + SumOver(FilesCutShort, effects.failures,
                [f \in FilesCutShort |-> BytesBeforeLastChunk(f.path)])

\* with ignoreCopyErrors the run has ended after the write of the second chunk
\* of A/m/g1 failed: the three small files and the first chunk are counted
C20_Witness ==
  /\ mainPc = "returned" /\ config.ignoreCopyErrors
  /\ NumFailures({"write"}) = 1
  /\ \E cp \in BagToSet(effects.copied) : cp.kind = "symlink"
  /\ statistics.numBytesCopied = bufSize + 40

(***************************************************************************)
(* Quit after the first match.                                             *)
(***************************************************************************)
\* the state in which the test at the head of scan() succeeds
QuitState == config.quitAfterFirstMatch /\ statistics.numFilterMatches > 0

\* thread t takes the step (no other thread writes the pc of a running
\* thread or its frames)
Stepped(t) == pc'[t] # pc[t] \/ frames'[t] # frames[t]

\* thread t is in the loop of scan() with an entry that readdir will return
HasNextEntry(t) ==
  /\ pc[t] = "readdir"
  /\ Top(t).idx <= Len(FS[Top(t).dir].entries)
  /\ ~(Top(t).idx = 2 /\ Errno("readdir", Top(t).dir) # "0")

EntriesCounted == statistics.numDirsFound + statistics.numFilesFound

\* the run is over: main() has returned with an empty stack and every thread
\* done, or the process was ended by a fatal errno
RunOver ==
  IF FatalFault THEN mainPc \in {"killed", "returned"}
  ELSE mainPc = "returned" /\ AllDone /\ dirPathStack = << >>

\* C21: with quitAfterFirstMatch set and numFilterMatches > 0, a scan() call
\* that starts returns at once: no stream is opened, nothing is counted,
\* printed, done or pushed; a thread in the loop of scan() still processes
\* the next entry of its directory; and from every such state the stack is
\* drained and the run ends
C21_CooperativeQuit ==
  /\ [][QuitState =>
          \A t \in Threads :
            /\ (pc[t] = "scan" /\ Stepped(t)) =>
                 /\ frames'[t] # << >> =>
                      /\ Len(frames'[t]) = Len(frames[t]) - 1
                      /\ \A i \in 1..(Len(frames'[t]) - 1) : frames'[t][i] = frames[t][i]
                 /\ frames'[t] = << >> => Len(frames[t]) = 1 /\ pc'[t] = "popWait"
                 /\ UNCHANGED << statistics, emitted, effects, stackVars, eligible >>
            /\ (HasNextEntry(t) /\ Stepped(t)) =>
                 EntriesCounted' = EntriesCounted + 1]_vars
  /\ (QuitState ~> RunOver)

\* the run is over after a quit, and a directory with a regular file entry that
\* was never printed had its scan() call, while items had been on the stack
C21_Witness ==
  /\ QuitState /\ mainPc = "returned" /\ faults = NoFaults
  /\ config.numThreads >= 2 /\ config.depthSearchStartThreshold > 0
  /\ BagCardinality(scanCalls) >= 3
  /\ \E p \in BagToSet(scanCalls) :
       \E e \in Nodes :
         /\ FS[e].parent = Resolve(p) /\ FS[e].dtype = "DT_REG"
         /\ EntryPath(p, e) \notin EmittedPaths(emitted)

(***************************************************************************)
(* One thread.                                                             *)
(***************************************************************************)
\* the stack element that main() pushes for scan path number i
SeedOf(i) ==
  [dirPath |-> TrimTrailingSlash(config.scanPaths[i]), dirDepth |-> NextDepth(0)]

Seeds == {SeedOf(i) : i \in 1..Len(config.scanPaths)}

\* C22: with numThreads = 1 the threshold is 0 from the start of the thread
\* on, the thread never gets to a push, every element on the stack is one that
\* main() pushed for a scan path, and the scan() calls of the thread are
\* nested: the outermost is of a popped scan path, each further one is the
\* inline call for a directory of the one below it
C22_PureDepth ==
  config.numThreads = 1 =>
    /\ mainPc # "seed" => config.depthSearchStartThreshold = 0
    /\ \A t \in Threads : pc[t] # "push"
    /\ \A i \in DOMAIN dirPathStack : dirPathStack[i] \in Seeds
    /\ \A t \in Threads :
         /\ frames[t] # << >> =>
              [dirPath |-> frames[t][1].path, dirDepth |-> frames[t][1].depth] \in Seeds
         /\ \A k \in 2..Len(frames[t]) :
              /\ frames[t][k].depth = k
              /\ frames[t][k - 1].dir # 0
              /\ Resolve(frames[t][k].path) \in
                   {FS[frames[t][k - 1].dir].entries[j] :
                      j \in DOMAIN FS[frames[t][k - 1].dir].entries}

\* one thread was asked to go deep only from a stack size of one on, and is
\* two inline calls below a scan path with the stack size below what was asked
C22_Witness ==
  /\ config.numThreads = 1 /\ args.godeep >= 1
  /\ stackSize < args.godeep
  /\ \E t \in Threads : Len(frames[t]) >= 3

(***************************************************************************)
(* Hand-off of directories.                                                *)
(***************************************************************************)
\* the bag of the values of the sequence seq
BagOfSeq(seq) == BagOfAll(LAMBDA i : seq[i], SetToBag(DOMAIN seq))

\* the directories on the shared stack
OnStack == BagOfSeq([i \in DOMAIN dirPathStack |-> dirPathStack[i].dirPath])

\* the directory that thread t holds between finding it eligible, or popping
\* it, and the head of its scan() call
InHand(t) ==
  IF pc[t] = "scan" THEN SetToBag({Top(t).path})
  ELSE IF pc[t] \in {"getSize", "push"}
       THEN SetToBag({EntryPath(Top(t).path, FS[Top(t).dir].entries[Top(t).idx])})
       ELSE EmptyBag

RECURSIVE InHands(_)
InHands(T) ==
  IF T = {} THEN EmptyBag
  ELSE LET t == CHOOSE x \in T : TRUE IN InHand(t) (+) InHands(T \ {t})

Notified == {t \in Threads : pc[t] = "waiting" /\ pc'[t] = "woken"}

\* C24: a directory on the shared stack is popped and its scan() call begins,
\* and no scan() call begins once a thread has seen the end of the scan, at
\* which time the stack is empty; a push in a state with a thread in
\* condition.wait takes exactly one such thread out of the wait; a thread that
\* comes out of the wait and finds the stack empty, with not all threads
\* waiting, goes back into the wait with numWaiters as it was
C24_NoStrandedWork ==
  /\ \A n \in {d \in Nodes : FS[d].mode = "S_IFDIR"} :
       (~FatalFault /\ CopiesIn(PathOf(n), OnStack) > 0)
         ~> (CopiesIn(PathOf(n), scanCalls) > 0)
  /\ [](SomeDone => dirPathStack = << >> /\ scanCalls = eligible)
  /\ [][/\ scanCalls' # scanCalls => ~SomeDone
        /\ (Len(dirPathStack') > Len(dirPathStack)
             /\ \E t \in Threads : pc[t] = "waiting") =>
               Cardinality(Notified) = 1
        /\ \A t \in Threads :
             (pc[t] = "woken" /\ Stepped(t) /\ dirPathStack = << >>
                /\ numWaiters # config.numThreads) =>
               pc'[t] = "waiting" /\ numWaiters' = numWaiters]_vars

\* a thread was taken out of the wait by the push of another thread, a third
\* party (or the pushing thread itself) has popped the directory and is in its
\* scan() call, and the woken thread is about to find the stack empty
C24_Witness ==
  /\ ~SomeDone /\ dirPathStack = << >>
  /\ numWaiters < config.numThreads
  /\ \E t \in Threads : pc[t] = "woken"
  /\ \E t \in Threads :
       /\ pc[t] \in {"scan", "readdir"}
       /\ frames[t][1].depth >= 2

(***************************************************************************)
(* The counters of scan().                                                 *)
(***************************************************************************)
\* the entries that readdir has returned: each goes with its d_type and the
\* result of its stat call into processDiscoveredEntry (main() passes its scan
\* paths without a dirent)
EntriesRead == {r \in BagToSet(effects.processed) : r.dtype # "NULL"}

\* how many entries of the set S of entries read there were
NumRead(S) == SumOver(S, effects.processed, [r \in S |-> 1])

\* what the claim calls a directory
HintedDir(r) ==
  \/ r.dtype = "DT_DIR"
  \/ r.dtype = "DT_UNKNOWN" /\ r.statBuf.ok /\ r.statBuf.mode = "S_IFDIR"

\* the entries of the directories that had a scan() call
EntriesOfScanned ==
  SumOver(BagToSet(scanCalls), scanCalls,
          [p \in BagToSet(scanCalls) |->
             IF Resolve(p) = 0 THEN 0 ELSE Len(FS[Resolve(p)].entries)])

\* C25: at every time dirs is the number of entries read whose d_type is
\* DT_DIR, or is DT_UNKNOWN with a successful stat that shows a directory,
\* files is the number of the other entries read, and unknowns the number of
\* entries read with d_type DT_UNKNOWN, so that each entry read is counted in
\* exactly one of dirs and files; when main() returns from a run without --quit and without a failed opendir
\* or readdir, dirs + files is the number of entries of the directories scanned
C25_Counters ==
  /\ statistics.numDirsFound = NumRead({r \in EntriesRead : HintedDir(r)})
  /\ statistics.numFilesFound = NumRead({r \in EntriesRead : ~HintedDir(r)})
  /\ statistics.numUnknownFound = NumRead({r \in EntriesRead : r.dtype = "DT_UNKNOWN"})
  /\ (/\ mainPc = "returned" /\ ~config.quitAfterFirstMatch
      /\ NumFailures({"opendir", "readdir"}) = 0) =>
        EntriesCounted = EntriesOfScanned

\* a run in which the stat of an entry of unknown type failed, and the entry
\* was counted as a file, while the directories by d_type were counted as such
C25_Witness ==
  /\ mainPc = "returned" /\ ~config.quitAfterFirstMatch
  /\ \E r \in EntriesRead : r.dtype = "DT_UNKNOWN" /\ ~r.statBuf.ok
  /\ statistics.numUnknownFound = 3
  /\ statistics.numDirsFound = 2
  /\ statistics.numFilesFound >= 4

(***************************************************************************)
(* The filters for non-directories.                                        *)
(***************************************************************************)
\* the entry of record r is typed as a directory, by d_type or by stat
TypedDir(r) ==
  \/ r.dtype = "DT_DIR"
  \/ r.statBuf.ok /\ r.statBuf.mode = "S_IFDIR"

\* the filters let the entry of record r pass up to filter number k of
\* StageOrder: the calls made for it go beyond that filter
PassedUpTo(r, k) == Len(r.trace) > k

MeetsFlag(sb, fl) ==
  LET val == CASE fl[1] = "size" -> sb.size
               [] fl[1] = "atime" -> sb.atime
               [] fl[1] = "ctime" -> sb.ctime
               [] fl[1] = "mtime" -> sb.mtime
      th  == config.filterVal[fl[1]]
  IN  CASE fl[2] = "EXACT" -> val = th.exact
        [] fl[2] = "LESS" -> val < th.less
        [] fl[2] = "GREATER" -> val > th.greater

\* the run of the example: type f and size greater than 15 bytes on the files
\* of 10, 20 and 10 bytes
GreaterThan15Bytes ==
  /\ args.type = "f" /\ args.sizeTimeFlags = {<<"size", "GREATER">>}
  /\ args.filterVal["size"].greater = 15 /\ args.sizeUnit = "c"
  /\ args.xdev /\ args.paths = Paths1

\* C27: a non-directory entry with stat result that gets to the size/time
\* filter passes it iff its value meets every active flag: equal to the exact
\* threshold, less than the less threshold, greater than the greater
\* threshold; a threshold given in bytes is the threshold compared with; type f
\* and size greater than 15 bytes on files of 10, 20 and 10 bytes prints the
\* file of 20 bytes only and ends with filterMatches = 1
C27_Comparisons ==
  /\ \A r \in BagToSet(effects.processed) :
       (r.statBuf.ok /\ ~TypedDir(r) /\ Len(r.trace) >= 4
          /\ config.filterSizeAndTimeFlags # {}) =>
         (PassedUpTo(r, 4) <=>
            \A fl \in config.filterSizeAndTimeFlags : MeetsFlag(r.statBuf, fl))
  /\ args.sizeUnit = "c" => config.filterVal["size"] = args.filterVal["size"]
  /\ (GreaterThan15Bytes /\ mainPc = "returned") =>
       /\ EmittedPaths(emitted) = {PathOf(5)}
       /\ BagCardinality(emitted) = 1
       /\ statistics.numFilterMatches = 1

\* the run of the example has ended after reading the three files
C27_Witness ==
  /\ GreaterThan15Bytes /\ mainPc = "returned"
  /\ FS[5].size = 20 /\ FS[3].size = 10 /\ FS[7].size = 10
  /\ {r.path : r \in {x \in EntriesRead : x.statBuf.ok /\ x.statBuf.mode = "S_IFREG"}}
       = {PathOf(3), PathOf(5), PathOf(7)}

(***************************************************************************)
(* Failure of opendir.                                                     *)
(***************************************************************************)
\* the step is a failed opendir in the scan() call of thread t
OpendirFails(t) ==
  /\ pc[t] = "scan"
  /\ effects'.failures =
       effects.failures (+) SetToBag({[call |-> "opendir", path |-> Top(t).path]})

\* the directories of the tree whose opendir fails in this environment
Unopenable == {n \in Nodes : Errno("opendir", n) # "0"}

\* every entry of every directory that had a scan() call and can be opened
\* has been read
ReadAllOpenable ==
  \A p \in BagToSet(scanCalls) :
    Resolve(p) \notin Unopenable =>
      \A e \in Nodes :
        FS[e].parent = Resolve(p) =>
          \E r \in EntriesRead : r.path = EntryPath(p, e)

\* C28: a failed opendir adds one to numErrors, and nothing is printed,
\* processed, found eligible or pushed by the step; with EACCES or ENOENT the
\* scan() call returns and the process goes on, with another errno the process
\* is ended by SIGTERM; no entry of such a directory is ever read; and when
\* every failure is of the first kind the run ends with main() returned, every
\* eligible directory scanned and every entry of the other directories read
C28_OpendirFailure ==
  /\ [][\A t \in Threads :
          OpendirFails(t) =>
            /\ statistics' = [statistics EXCEPT !.numErrors = @ + 1]
            /\ UNCHANGED << emitted, stackVars, eligible >>
            /\ effects'.processed = effects.processed
            /\ IF Errno("opendir", Resolve(Top(t).path)) \in {"EACCES", "ENOENT"}
               THEN /\ mainPc' = mainPc
                    /\ Len(frames'[t]) = Len(frames[t]) - 1
                    /\ pc'[t] \in {"popWait", "readdir"}
               ELSE mainPc' = "killed"]_vars
  /\ [](\A r \in EntriesRead : FS[Resolve(r.path)].parent \notin Unopenable)
  /\ (~FatalFault) ~>
       (mainPc = "returned" /\ AllDone /\ scanCalls = eligible /\ ReadAllOpenable)

\* a run has ended in which opendir failed once with EACCES or ENOENT: one
\* error was counted, and the directories beside and above it were read
C28_Witness ==
  /\ mainPc = "returned" /\ AllDone
  /\ NumFailures({"opendir"}) = 1
  /\ statistics.numErrors = 1
  /\ BagCardinality(scanCalls) >= 3
  /\ ReadAllOpenable

(***************************************************************************)
(* Directory streams.                                                      *)
(***************************************************************************)
\* the streams that thread t holds: the dirStream variables of its scan()
\* calls that opendir has set
Held(t) ==
  BagOfSeq([k \in {i \in DOMAIN frames[t] : frames[t][i].dir # 0} |->
              frames[t][k].path])

RECURSIVE HeldBy(_)
HeldBy(T) ==
  IF T = {} THEN EmptyBag
  ELSE LET t == CHOOSE x \in T : TRUE IN Held(t) (+) HeldBy(T \ {t})

\* thread t is in the loop of its innermost scan() call
InLoop(t) == pc[t] \in {"readdir", "getSize", "push"}

AccessACLFound(r) ==
  Resolve(r.path) \in AccessACLs /\ Errno("lgetxattr", Resolve(r.path)) = "0"

DefaultACLFound(r) ==
  Resolve(r.path) \in DefaultACLs /\ Errno("lgetxattr_default", Resolve(r.path)) = "0"

\* C30: with checkACLs set, numAccessACLsFound is the number of entries read
\* whose access ACL query succeeded and numDefaultACLsFound the number of
\* directories read whose default ACL query succeeded
C30_Original ==
  config.checkACLs =>
    /\ statistics.numAccessACLsFound = NumRead({r \in EntriesRead : AccessACLFound(r)})
    /\ statistics.numDefaultACLsFound =
         NumRead({r \in EntriesRead : HintedDir(r) /\ DefaultACLFound(r)})

(***************************************************************************)
(* The size counter of the stack.                                          *)
(***************************************************************************)
\* C31: between the critical sections of push and popWait the counter
\* stackSize is the number of elements on the stack; a step that takes
\* stackSize down takes it down by one from a value above 0, with an element
\* on the stack; the step of a thread that reads getSize() leaves the stack,
\* the counters, the waiters and everything outside the thread as they were
C31_SizeMirrorsStack ==
  /\ [](stackSize = Len(dirPathStack) /\ stackSize >= 0)
  /\ [][stackSize' < stackSize =>
          /\ stackSize > 0 /\ dirPathStack # << >>
          /\ stackSize' = stackSize - 1]_vars
  /\ [][\A t \in Threads :
          (pc[t] = "getSize" /\ Stepped(t)) =>
            /\ UNCHANGED << stackVars, ioVars, eligible, scanCalls, mainPc, retVal,
                            config >>
            /\ \A u \in Threads \ {t} : pc'[u] = pc[u] /\ frames'[u] = frames[u]]_vars

\* two threads: an element pushed by a thread was popped and another one is on
\* the stack, and a thread is about to read the size
C31_Witness ==
  /\ config.numThreads >= 2
  /\ stackSize = 1 /\ dirPathStack[1].dirDepth >= 2
  /\ \E t \in Threads : frames[t] # << >> /\ frames[t][1].depth >= 2
  /\ \E t \in Threads : pc[t] = "getSize"

(***************************************************************************)
(* The count of waiting threads.                                           *)
(***************************************************************************)
\* the threads that have entered popWait and have not left it with a
\* directory: blocked in the wait, on their way out of it, or gone by
\* ScanDoneException, which leaves them counted
InPopWait == {t \in Threads : pc[t] \in {"waiting", "woken", "done"}}

\* C32: numWaiters is never below 0 or above numThreads and is the number of
\* threads that are inside popWait or have left it by ScanDoneException; once
\* a thread has seen the end of the scan numWaiters is numThreads and no step
\* changes it
C32_WaiterCount ==
  /\ [](0 <= numWaiters /\ numWaiters <= config.numThreads)
  /\ [](numWaiters = Cardinality(InPopWait))
  /\ [](SomeDone => numWaiters = config.numThreads)
  /\ [][SomeDone => numWaiters' = numWaiters]_vars

\* one thread waits, counted, while another is back in
\* scan() with a popped directory after it had been counted and counted out
C32_Witness ==
  /\ config.numThreads >= 2 /\ numWaiters = 1
  /\ \E t \in Threads : pc[t] = "waiting"
  /\ \E t \in Threads : pc[t] = "readdir" /\ frames[t][1].depth >= 2
  /\ ~SomeDone

(***************************************************************************)
(* The size of the stack.                                                  *)
(***************************************************************************)
\* the scan paths that main() pushes: the directories among them, when
\* maxDirDepth is not 0
SeededDirs ==
  {i \in 1..Len(config.scanPaths) :
     /\ Resolve(config.scanPaths[i]) # 0
     /\ Errno("lstat", Resolve(config.scanPaths[i])) = "0"
     /\ FS[Resolve(config.scanPaths[i])].mode = "S_IFDIR"
     /\ doDescendDepth(config, 0)}

Max(a, b) == IF a >= b THEN a ELSE b

\* what the threads can bring the stack to: every thread has read a size
\* below the threshold and pushes
RacyBound == config.depthSearchStartThreshold - 1 + config.numThreads

\* C33: the stack never holds more elements than the larger of the number of
\* scan-path directories and threshold - 1 + numThreads, and the push of a
\* thread never takes it beyond threshold - 1 + numThreads
C33_QueueBound ==
  /\ [](Len(dirPathStack) <= Max(Cardinality(SeededDirs), RacyBound))
  /\ [][(mainPc = "join" /\ Len(dirPathStack') > Len(dirPathStack)) =>
          Len(dirPathStack') <= RacyBound]_vars

\* two threads have read the size 0 below the threshold 1 and both have
\* pushed: the stack holds more elements than the threshold
C33_Witness ==
  /\ config.numThreads >= 2
  /\ Len(dirPathStack) > config.depthSearchStartThreshold
  /\ Len(dirPathStack) = RacyBound
  /\ \A i \in DOMAIN dirPathStack : dirPathStack[i].dirDepth >= 2

(***************************************************************************)
(* The outcomes of popWait.                                                *)
(***************************************************************************)
\* thread t leaves popWait in this step
LeavesPopWait(t) ==
  pc[t] \in {"popWait", "woken"} /\ pc'[t] \notin {"popWait", "waiting", "woken"}

\* C34: no thread gets to the "return false" of popWait; a thread leaves
\* popWait either with the top element of a non-empty stack, which it scans
\* next, or by ScanDoneException from an empty stack; so no thread has left
\* the loop of threadStart while an element is on the stack
C34_TwoOutcomes ==
  /\ [](\A t \in Threads : pc[t] # "returnedFalse")
  /\ [][\A t \in Threads :
          LeavesPopWait(t) =>
            \/ /\ pc'[t] = "scan" /\ dirPathStack # << >>
               /\ dirPathStack' = SubSeq(dirPathStack, 1, Len(dirPathStack) - 1)
               /\ frames'[t] =
                    << [path |-> dirPathStack[Len(dirPathStack)].dirPath, dir |-> 0,
                        depth |-> dirPathStack[Len(dirPathStack)].dirDepth, idx |-> 1] >>
            \/ /\ pc'[t] = "done"
               /\ dirPathStack = << >> /\ dirPathStack' = << >>]_vars
  /\ [](\A t \in Threads : pc[t] \notin {"popWait", "waiting", "woken", "scan",
                                        "readdir", "getSize", "push", "idle"}
                             => dirPathStack = << >>)

\* a thread is on its way out of the wait after a push, and the thread that
\* pushed has itself popped the directory: the stack is empty once more
C34_Witness ==
  /\ dirPathStack = << >> /\ numWaiters = 1 /\ config.numThreads = 2
  /\ \E t \in Threads : pc[t] = "woken"
  /\ \E t \in Threads : pc[t] = "scan" /\ Len(frames[t]) = 1 /\ frames[t][1].depth = 2

(***************************************************************************)
(* Parents before children.                                                *)
(***************************************************************************)
\* the records that the step adds to the bag B
AddedTo(B) == {r \in BagToSet(B') : CopiesIn(r, B') > CopiesIn(r, B)}

\* the path of the directory that holds the entry under path p
ParentPath(p) == PathOf(FS[Resolve(p)].parent)

\* the scan paths that main() gives to processDiscoveredEntry
RootsGiven ==
  {config.scanPaths[i] :
     i \in {j \in 1..Len(config.scanPaths) :
              /\ Resolve(config.scanPaths[j]) # 0
              /\ Errno("lstat", Resolve(config.scanPaths[j])) = "0"}}

\* C35: when a thread gives an entry to processDiscoveredEntry, the call for
\* the directory that holds the entry has been made and has returned, by
\* main() for a scan path and by the thread that read the directory's own
\* entry otherwise; where everything is copied and no call fails the
\* directory exists at the destination before an entry of it is copied; and
\* main() has given every scan path to processDiscoveredEntry, and gives none
\* later, when the threads start
C35_ParentFirst ==
  /\ [][mainPc = "join" =>
          /\ \A r \in AddedTo(effects.processed) :
               /\ r.dtype # "NULL"
               /\ \E q \in BagToSet(effects.processed) :
                    TrimTrailingSlash(q.path) = ParentPath(r.path)
          /\ \A cp \in AddedTo(effects.copied) :
               (faults = NoFaults /\ config.searchType = "0") =>
                 \E d \in BagToSet(effects.copied) :
                   d.kind = "dir" /\ TrimTrailingSlash(d.src) = ParentPath(cp.src)]_vars
  /\ []((\E t \in Threads : pc[t] # "idle") =>
          \A p \in RootsGiven :
            \E q \in BagToSet(effects.processed) : q.path = p /\ q.dtype = "NULL")

\* two threads copy: the file A/s/d/h1 has been copied while a thread reads
\* the directory A/s/d, which it got from the stack, where a thread that
\* read A/s had put it
C35_Witness ==
  /\ config.numThreads = 2 /\ config.copyDestDir # << >>
  /\ \E cp \in BagToSet(effects.copied) : cp.src = PathOf(7)
  /\ \E t \in Threads :
       /\ frames[t] # << >> /\ frames[t][1].path = PathOf(6) /\ pc[t] = "readdir"
  /\ \E t \in Threads : Len(frames[t]) = 1 /\ frames[t][1].depth = 3

(***************************************************************************)
(* Copy, then unlink.                                                      *)
(***************************************************************************)
\* the entries whose copy failed: a call of copyEntry other than the
\* timestamp update of the finished copy
CopyFailed == FailedPaths(CopyCalls \ {"utimens"})

\* C36: with copyDestDir and unlinkFiles both set, an entry whose copy failed
\* is not given to unlink() and is not counted in numFilterMatches, with and
\* without ignoreCopyErrors
C36_Original ==
  (config.copyDestDir # << >> /\ config.unlinkFiles) =>
    \A p \in CopyFailed :
      /\ CopiesIn(p, effects.unlinked) = 0
      /\ \A r \in BagToSet(effects.processed) :
           r.path = p => ~PassedUpTo(r, 9)

(***************************************************************************)
(* Depth tags.                                                             *)
(***************************************************************************)
\* d is a depth tag for the directory path: between 1 and maxDirDepth, and one
\* more than the number of levels from a scan path down to the directory
DepthFits(path, d) ==
  /\ 1 <= d /\ d <= config.maxDirDepth
  /\ \E i \in ScanRoots :
       /\ RootOf(i) \in AboveTable[Resolve(path)]
       /\ d = 1 + LevelTable[Resolve(path)] - LevelTable[RootOf(i)]

\* C37: every item on the shared stack and every scan() call in progress has
\* a depth d with 1 <= d <= maxDirDepth that is one more than the number of
\* levels between its directory and a scan path above it; the depth handed to
\* a recursive call or to push by a thread is the caller's depth plus one,
\* which is at most USHORT_MAX, so nothing is lost in the unsigned short
C37_DepthTags ==
  /\ [](/\ \A k \in DOMAIN dirPathStack :
             DepthFits(dirPathStack[k].dirPath, dirPathStack[k].dirDepth)
        /\ \A t \in DOMAIN frames : \A k \in DOMAIN frames[t] :
             DepthFits(frames[t][k].path, frames[t][k].depth))
  /\ [][\A t \in DOMAIN frames :
          /\ (pc[t] = "getSize" /\ pc'[t] = "scan") =>
               /\ Top(t)'.depth = Top(t).depth + 1
               /\ Top(t)'.depth <= USHORT_MAX
          /\ (pc[t] = "push" /\ pc'[t] # "push") =>
               /\ dirPathStack'[Len(dirPathStack')].dirDepth = Top(t).depth + 1
               /\ Top(t).depth + 1 <= USHORT_MAX]_vars

\* --maxdepth 2 with two threads: A/s is on the stack with depth 2 while a
\* thread reads A with depth 1
C37_Witness ==
  /\ config.maxDirDepth = 2 /\ config.numThreads >= 2
  /\ \E k \in DOMAIN dirPathStack :
       dirPathStack[k].dirPath = PathOf(2) /\ dirPathStack[k].dirDepth = 2
  /\ \E t \in Threads :
       Len(frames[t]) = 1 /\ frames[t][1].path = PathOf(1) /\ frames[t][1].depth = 1

(***************************************************************************)
(* Symbolic links.                                                         *)
(***************************************************************************)
\* the entry under path is a symbolic link, by its d_type or by lstat
IsSymlink(path) ==
  /\ Resolve(path) # 0
  /\ \/ FS[Resolve(path)].dtype = "DT_LNK"
     \/ FS[Resolve(path)].mode = "S_IFLNK"

\* C38: scan() is not called on a symbolic link: no path that scan() was
\* called with, that a scan() call in progress has, or that waits on the
\* shared stack is one whose d_type, or whose lstat result where the d_type
\* is unknown, says symbolic link
C38_NoSymlinkScanned ==
  /\ \A p \in BagToSet(scanCalls) : ~IsSymlink(p)
  /\ \A t \in DOMAIN frames : \A k \in DOMAIN frames[t] : ~IsSymlink(frames[t][k].path)
  /\ \A k \in DOMAIN dirPathStack : ~IsSymlink(dirPathStack[k].dirPath)

\* the run is over: the directory A/m was read and its two symbolic links,
\* one with d_type DT_LNK and one with an unknown d_type and a stat result,
\* went through processDiscoveredEntry
C38_Witness ==
  /\ mainPc = "returned"
  /\ PathOf(4) \in BagToSet(scanCalls)
  /\ \E r \in BagToSet(effects.processed) : r.path = PathOf(9) /\ r.dtype = "DT_LNK"
  /\ \E r \in BagToSet(effects.processed) :
       /\ r.path = PathOf(11) /\ r.dtype = "DT_UNKNOWN"
       /\ r.statBuf.ok /\ r.statBuf.mode = "S_IFLNK"

(***************************************************************************)
(* The words of the exec command.                                          *)
(***************************************************************************)
\* what sh makes of a command string of single quotes, blanks and ordinary
\* characters, read from position i: a quote opens or closes a quoted part, in
\* which every character is taken as it is; a blank outside quotes ends the
\* word; a string that ends inside quotes is a syntax error.  cur is the
\* word read so far, inWord whether one has begun.
RECURSIVE ShellScan(_, _, _, _, _, _)
ShellScan(s, i, quoted, inWord, cur, words) ==
  IF i > Len(s)
  THEN [ok |-> ~quoted, words |-> IF inWord THEN Append(words, cur) ELSE words]
  ELSE IF s[i] = "'" THEN ShellScan(s, i + 1, ~quoted, TRUE, cur, words)
  ELSE IF quoted THEN ShellScan(s, i + 1, TRUE, TRUE, Append(cur, s[i]), words)
  ELSE IF s[i] = " "
       THEN ShellScan(s, i + 1, FALSE, FALSE, << >>,
                      IF inWord THEN Append(words, cur) ELSE words)
  ELSE ShellScan(s, i + 1, FALSE, TRUE, Append(cur, s[i]), words)

ShellWords(s) == ShellScan(s, 1, FALSE, FALSE, << >>, << >>)

\* C39: the command string built for an entry is read by the shell as exactly
\* the words of the exec argv, each with every "{}" replaced by the entry
\* path, whatever characters the path has
C39_Original ==
  \A x \in BagToSet(effects.execd) :
    LET sw == ShellWords(x.commandStr)
    IN  /\ sw.ok
        /\ Len(sw.words) = Len(config.execCmdLine)
        /\ \A i \in 1..Len(config.execCmdLine) :
             i <= Len(sw.words) =>
               sw.words[i] = SubstFrom(config.execCmdLine[i], x.path, 1)

====
